---- MODULE Spec2Model ----
(***************************************************************************)
(* Model of the guest-portal reconciliation code of                        *)
(* src/services_portal_metrics.py.                                          *)
(*                                                                         *)
(* Money is held in thousandths of a pound (500.004 is 500004), so that    *)
(* the two-decimal rounding of assign_payment_status and the 0.01          *)
(* tolerance of the sum check are real operations on the values.           *)
(* A missing value (pandas NaN / NaT / None) is the value NaN.             *)
(***************************************************************************)
EXTENDS Integers, Sequences, FiniteSets, TLC

VARIABLES
    \* assign_payment_status applied to one row of df_box_merged
    row, payment_status,
    \* record linkage: df_manual.merge(df_menu, how="left") and lumpsum_deduping
    df_manual, df_menu, df_merged_raw, df_merged, link_pc,
    \* run(), from the merged table that passed the filters (line 498) to the
    \* final export (line 730)
    pc, df_merged_final, consolidated_file, selected_event, selected_event_date,
    df_consolidated, df_completed, df_box_totals, df_box_merged,
    sum_preorders, sum_consolidated, message, merged_download, final_download,
    \* reference resolution: process_api_menu's event_map and map_event_id
    df_api, df_unresolved, event_map, df_resolved, resolve_pc,
    \* src/tjt_hosp_api.py: the clock, the token globals, the headers built at
    \* line 43, the requests sent and the per-event loop; issued holds the
    \* expiry the server gave to each token
    now, token_expiry_time, access_token, headers, issued, sent, tjt_pc,
    event_list, event_index, merged_data, printed, saved,
    \* ingestion of the two uploads: preprocess_manual and
    \* preprocess_consolidated_payment_report on their own
    ingest_pc, manual_upload, manual_result, consolidated_upload, consolidated_result,
    \* run(), from the upload of the pre-order export to the rename of line 498
    pipe_pc, manual_file, p_manual, token, events_list, fetch_index, responses,
    all_data, p_api, p_menu, p_event_map, p_merged, messages, metrics_shown,
    \* run(), lines 637-730: the table of the final export
    df_export,
    \* src/ticket_exchange_report.py: adjust_block applied to a block, and to
    \* its own result
    block, adjusted, adjusted_again, block_pc,
    \* src/ticket_exchange_report.py: run_app, its two uploads, the result of
    \* process_files (<<>> is None, <<df>> a DataFrame), what was shown, the
    \* file written and the download offered
    tk_pc, tx_sales_file, from_hosp_file, matched_df, release_df, tk_messages,
    tk_written, tk_download,
    \* src/tjt_hosp_api.py, lines 139-226: the merged transactions, the row
    \* the loop is at and the records collected
    seat_pc, tjt_df, seat_index, final_data,
    \* src/leadership_board_safe_keeping.py: calculate_monthly_progress, its
    \* arguments and the three columns it computes
    board_pc, sales_data, start_date, end_date, end_date_sales, weekly_sales, progress,
    progress_percentage,
    \* src/tx_tt.py: st.session_state, the code in the query parameters, the
    \* widget that was clicked, the place in the script run, the number of
    \* runs, the tokens Entra ID gave out and the module runs with the value of
    \* authenticated they were made under
    session_state, query_code, click, login_pc, runs, granted, module_runs

status_vars == <<row, payment_status>>

link_vars == <<df_manual, df_menu, df_merged_raw, df_merged, link_pc>>

run_vars ==
    <<pc, df_merged_final, consolidated_file, selected_event, selected_event_date,
      df_consolidated, df_completed, df_box_totals, df_box_merged,
      sum_preorders, sum_consolidated, message, merged_download, final_download>>

resolve_vars == <<df_api, df_unresolved, event_map, df_resolved, resolve_pc>>

api_vars ==
    <<now, token_expiry_time, access_token, headers, issued, sent, tjt_pc,
      event_list, event_index, merged_data, printed, saved>>

ingest_vars ==
    <<ingest_pc, manual_upload, manual_result, consolidated_upload, consolidated_result>>

pipe_vars ==
    <<pipe_pc, manual_file, p_manual, token, events_list, fetch_index, responses,
      all_data, p_api, p_menu, p_event_map, p_merged, messages, metrics_shown>>

export_vars == <<df_export>>

block_vars == <<block, adjusted, adjusted_again, block_pc>>

\* the sibling tools of the repository
ticket_vars ==
    <<tk_pc, tx_sales_file, from_hosp_file, matched_df, release_df, tk_messages,
      tk_written, tk_download>>

seat_vars == <<seat_pc, tjt_df, seat_index, final_data>>

board_vars ==
    <<board_pc, sales_data, start_date, end_date, end_date_sales, weekly_sales, progress,
      progress_percentage>>

login_vars == <<session_state, query_code, click, login_pc, runs, granted, module_runs>>

sibling_vars == <<block_vars, ticket_vars, seat_vars, board_vars, login_vars>>

more_vars == <<export_vars, sibling_vars>>

\* what a sibling tool leaves alone: the dashboard, the export script and the
\* other sibling tools
main_vars ==
    <<status_vars, link_vars, run_vars, resolve_vars, api_vars, ingest_vars, pipe_vars,
      export_vars>>

beside_block_vars == <<main_vars, ticket_vars, seat_vars, board_vars, login_vars>>

beside_ticket_vars == <<main_vars, block_vars, seat_vars, board_vars, login_vars>>

beside_seat_vars == <<main_vars, block_vars, ticket_vars, board_vars, login_vars>>

beside_board_vars == <<main_vars, block_vars, ticket_vars, seat_vars, login_vars>>

beside_login_vars == <<main_vars, block_vars, ticket_vars, seat_vars, board_vars>>

ext_vars == <<resolve_vars, api_vars, ingest_vars, pipe_vars, more_vars>>

core_vars == <<status_vars, link_vars, run_vars>>

vars == <<status_vars, link_vars, run_vars, ext_vars>>

(***************************************************************************)
(* Values                                                                  *)
(***************************************************************************)

\* pandas' missing value; never a legal amount of the model
NaN == -999999999

IsNaN(x) == x = NaN

\* a missing value in a text column (NaN after str.extract, None from the API)
NA == "<NA>"

IsNA(x) == x = NA

\* a DataFrame cell that has not been computed yet
Unset == "<unset>"

\* the variables of a part of the program that is not running
StatusIdle == row = Unset /\ payment_status = Unset

LinkIdle ==
    /\ df_manual = <<>> /\ df_menu = <<>> /\ df_merged_raw = <<>> /\ df_merged = <<>>
    /\ link_pc = "idle"

RunIdle ==
    /\ pc = "idle" /\ df_merged_final = <<>> /\ consolidated_file = <<>>
    /\ selected_event = Unset /\ selected_event_date = Unset
    /\ df_consolidated = <<>> /\ df_completed = <<>> /\ df_box_totals = <<>>
    /\ df_box_merged = <<>> /\ sum_preorders = NaN /\ sum_consolidated = NaN
    /\ message = "" /\ merged_download = FALSE /\ final_download = FALSE

ResolveIdle ==
    /\ df_api = <<>> /\ df_unresolved = <<>> /\ event_map = <<>> /\ df_resolved = <<>>
    /\ resolve_pc = "idle"

ApiIdle ==
    /\ now = 0 /\ token_expiry_time = NaN /\ access_token = NaN /\ headers = NaN
    /\ issued = <<>> /\ sent = <<>> /\ tjt_pc = "idle" /\ event_list = <<>>
    /\ event_index = 0 /\ merged_data = <<>> /\ printed = <<>> /\ saved = FALSE

IngestIdle ==
    /\ ingest_pc = "idle" /\ manual_upload = <<>> /\ manual_result = <<>>
    /\ consolidated_upload = <<>> /\ consolidated_result = <<>>

PipeIdle ==
    /\ pipe_pc = "idle" /\ manual_file = <<>> /\ p_manual = <<>> /\ token = NaN
    /\ events_list = <<>> /\ fetch_index = 0 /\ responses = <<>> /\ all_data = <<>>
    /\ p_api = <<>> /\ p_menu = <<>> /\ p_event_map = <<>> /\ p_merged = <<>>
    /\ messages = <<>> /\ metrics_shown = FALSE

ExportIdle == df_export = <<>>

BlockIdle == block = <<>> /\ adjusted = <<>> /\ adjusted_again = <<>> /\ block_pc = "idle"

TicketIdle ==
    /\ tk_pc = "idle" /\ tx_sales_file = <<>> /\ from_hosp_file = <<>>
    /\ matched_df = <<>> /\ release_df = <<>> /\ tk_messages = <<>>
    /\ tk_written = FALSE /\ tk_download = FALSE

SeatIdle == seat_pc = "idle" /\ tjt_df = <<>> /\ seat_index = 0 /\ final_data = <<>>

BoardIdle ==
    /\ board_pc = "idle" /\ sales_data = <<>> /\ start_date = 0 /\ end_date = 0
    /\ end_date_sales = <<>> /\ weekly_sales = <<>> /\ progress = <<>>
    /\ progress_percentage = <<>>

LoginIdle ==
    /\ session_state = <<>> /\ query_code = NaN /\ click = "none" /\ login_pc = "off"
    /\ runs = 0 /\ granted = {} /\ module_runs = <<>>

SiblingIdle == BlockIdle /\ TicketIdle /\ SeatIdle /\ BoardIdle /\ LoginIdle

MoreIdle == ExportIdle /\ SiblingIdle

MainIdle ==
    /\ StatusIdle /\ LinkIdle /\ RunIdle /\ ResolveIdle /\ ApiIdle /\ IngestIdle
    /\ PipeIdle /\ ExportIdle

ExtIdle == ResolveIdle /\ ApiIdle /\ IngestIdle /\ PipeIdle /\ MoreIdle

(***************************************************************************)
(* assign_payment_status (lines 30-57)                                      *)
(***************************************************************************)

\* round(x, 2) on thousandths: to the nearest hundredth, ties to even;
\* round(nan, 2) is nan
Round2(x) ==
    IF IsNaN(x) THEN NaN
    ELSE LET q == x \div 10
             r == x % 10
         IN  IF r < 5 THEN q * 10
             ELSE IF r > 5 THEN (q + 1) * 10
             ELSE IF q % 2 = 0 THEN q * 10 ELSE (q + 1) * 10

\* a float comparison: anything compared with nan is False
FloatGt0(x) == ~IsNaN(x) /\ x > 0

FloatEq(x, y) == ~IsNaN(x) /\ ~IsNaN(y) /\ x = y

\* variants of assign_payment_status
assign_payment_status_NoPositiveGuard(r) ==
    LET total_2dec == Round2(r.BoxTotal)
    IN  IF FloatEq(total_2dec, Round2(r.Drawdown)) THEN "Drawdown"
        ELSE IF FloatEq(total_2dec, Round2(r.CreditCard)) THEN "Credit Card"
        ELSE IF FloatEq(total_2dec, Round2(r.PurchaseOrders)) THEN "Purchase Order"
        ELSE IF FloatEq(total_2dec, Round2(r.EFT)) THEN "EFT"
        ELSE ""

assign_payment_status_CreditFirst(r) ==
    LET total_2dec == Round2(r.BoxTotal)
        credit_2dec == Round2(r.CreditCard)
        drawdown_2dec == Round2(r.Drawdown)
        purchase_order_2dec == Round2(r.PurchaseOrders)
        eft_2dec == Round2(r.EFT)
    IN  IF FloatGt0(credit_2dec) /\ FloatEq(total_2dec, credit_2dec) THEN "Credit Card"
        ELSE IF FloatGt0(drawdown_2dec) /\ FloatEq(total_2dec, drawdown_2dec) THEN "Drawdown"
        ELSE IF FloatGt0(purchase_order_2dec) /\ FloatEq(total_2dec, purchase_order_2dec)
             THEN "Purchase Order"
        ELSE IF FloatGt0(eft_2dec) /\ FloatEq(total_2dec, eft_2dec) THEN "EFT"
        ELSE ""

assign_payment_status(r) ==
    LET total_2dec == Round2(r.BoxTotal)
        drawdown_2dec == Round2(r.Drawdown)
        credit_2dec == Round2(r.CreditCard)
        purchase_order_2dec == Round2(r.PurchaseOrders)
        eft_2dec == Round2(r.EFT)
    IN  IF FloatGt0(drawdown_2dec) /\ FloatEq(total_2dec, drawdown_2dec) THEN "Drawdown"
        ELSE IF FloatGt0(credit_2dec) /\ FloatEq(total_2dec, credit_2dec) THEN "Credit Card"
        ELSE IF FloatGt0(purchase_order_2dec) /\ FloatEq(total_2dec, purchase_order_2dec)
             THEN "Purchase Order"
        ELSE IF FloatGt0(eft_2dec) /\ FloatEq(total_2dec, eft_2dec) THEN "EFT"
        ELSE ""

\* Box totals and payment amounts a row of df_box_merged can hold: a refund,
\* nothing, sub-penny values, 100.00 and values that round to or away from it.
StatusTotals == {-5000, 0, 4, 100000, 100004, 100015}

StatusAmounts == {-5000, 0, 100000, 100004, 100020}

\* A box without a consolidated row has all four amounts missing (left join).
StatusRows ==
    [BoxTotal : StatusTotals, Drawdown : StatusAmounts, CreditCard : StatusAmounts,
     PurchaseOrders : StatusAmounts, EFT : StatusAmounts]
    \cup [BoxTotal : StatusTotals, Drawdown : {NaN}, CreditCard : {NaN},
          PurchaseOrders : {NaN}, EFT : {NaN}]

StatusInit ==
    /\ row \in StatusRows
    /\ payment_status = Unset
    /\ LinkIdle
    /\ RunIdle
    /\ ExtIdle

\* df_box_merged.apply(assign_payment_status, axis=1), one row
AssignStatus ==
    /\ payment_status = Unset
    /\ payment_status' = assign_payment_status(row)
    /\ UNCHANGED <<row, link_vars, run_vars, ext_vars>>

StatusNext == AssignStatus

SpecStatus == StatusInit /\ [][StatusNext]_vars

(***************************************************************************)
(* Claims about assign_payment_status                                       *)
(***************************************************************************)

PaymentNames == <<"Drawdown", "Credit Card", "Purchase Order", "EFT">>

\* the four amounts of a row in priority order
PaymentAmounts(r) == <<r.Drawdown, r.CreditCard, r.PurchaseOrders, r.EFT>>

\* rounded amount i equals the rounded box total
RoundedMatch(r, i) == FloatEq(Round2(r.BoxTotal), Round2(PaymentAmounts(r)[i]))

\* ... and is a positive amount
PositiveMatch(r, i) == RoundedMatch(r, i) /\ FloatGt0(Round2(PaymentAmounts(r)[i]))

Digits == <<"0", "1", "2", "3", "4", "5", "6", "7", "8", "9">>

IsDigit(c) == \E d \in 1..Len(Digits) : Digits[d] = c

DigitValue(c) == (CHOOSE d \in 1..Len(Digits) : Digits[d] = c) - 1

\* .replace("[£,]", "", regex=True): the pound signs and the thousands
\* separators are removed wherever they stand
RECURSIVE StripCurrency(_)
StripCurrency(cell) ==
    IF cell = <<>> THEN <<>>
    ELSE IF Head(cell) \in {"£", ","} THEN StripCurrency(Tail(cell))
    ELSE <<Head(cell)>> \o StripCurrency(Tail(cell))

\* the value of a run of digits
RECURSIVE DigitsValue(_)
DigitsValue(ds) ==
    IF ds = <<>> THEN 0 ELSE DigitsValue(SubSeq(ds, 1, Len(ds) - 1)) * 10 + DigitValue(ds[Len(ds)])

AllDigits(ds) == \A i \in 1..Len(ds) : IsDigit(ds[i])

\* pd.to_numeric(text, errors="coerce") in thousandths: an optional sign, digits
\* and at most three decimals; anything else is NaN
ToNumeric(text) ==
    LET neg == text # <<>> /\ Head(text) = "-"
        body == IF neg THEN Tail(text) ELSE text
        dots == {i \in 1..Len(body) : body[i] = "."}
        dot == IF dots = {} THEN Len(body) + 1 ELSE CHOOSE i \in dots : TRUE
        whole == SubSeq(body, 1, dot - 1)
        frac == SubSeq(body, dot + 1, Len(body))
        scale == IF Len(frac) = 0 THEN 1000 ELSE IF Len(frac) = 1 THEN 100
                 ELSE IF Len(frac) = 2 THEN 10 ELSE 1
        magnitude == DigitsValue(whole) * 1000 + DigitsValue(frac) * scale
    IN  IF /\ Cardinality(dots) <= 1
           /\ Len(whole) + Len(frac) > 0
           /\ Len(frac) <= 3
           /\ AllDigits(whole) /\ AllDigits(frac)
        THEN IF neg THEN 0 - magnitude ELSE magnitude
        ELSE NaN

\* df["Total"]: strip the currency characters, turn "" into "0", parse, and
\* put 0 where the text is no number
ParseTotal(cell) ==
    LET stripped == StripCurrency(cell)
        text == IF stripped = <<>> THEN <<"0">> ELSE stripped
        value == ToNumeric(text)
    IN  IF IsNaN(value) THEN 0 ELSE value

\* Total cells of the pre-order export: an amount, a refund, an empty cell, text
RawTotalCells ==
    { <<"£", "7", ".", "0", "0">>,
      <<"-", "£", "5", ".", "0", "0">>,
      <<>>,
      <<"n", "/", "a">> }

ParsedTotals == {ParseTotal(cell) : cell \in RawTotalCells}

(***************************************************************************)
(* Record linkage: process_api_menu's de-duplication (lines 260-266), the   *)
(* left join (lines 374-376) and lumpsum_deduping (lines 276-284, 377)      *)
(***************************************************************************)

\* bounds: rows of the pre-order export and menu lines of the API response
MaxManual == 2

MaxMenu == 2

\* the values of the key columns, each in sort order
EventIds == <<0, 101>>

Locations == <<"box 12">>

Events == <<"arsenal v chelsea">>

GuestNames == <<"j smith">>

GuestEmails == <<"j@x.com">>

OrderTypes == <<"Enhancement", "Food">>

OrderedOns == <<1, 2>>

SeqRange(s) == {s[i] : i \in 1..Len(s)}

\* sequences over S of length at most n
SeqsUpTo(S, n) == UNION {[1..k -> S] : k \in 0..n}

\* A row of df_manual after preprocess_manual and the EventId mapping, of a
\* record that found its event.
\* Guest_name is NaN when the cell holds no "(email)" part (str.extract, line
\* 189); Ordered_on is NaT when the cell is empty.
ManualRows ==
    [EventId : {101}, Location : SeqRange(Locations), Event : SeqRange(Events),
     Guest_name : SeqRange(GuestNames) \cup {NA}, Guest_email : SeqRange(GuestEmails),
     Order_type : SeqRange(OrderTypes), Ordered_on : SeqRange(OrderedOns) \cup {NaN},
     Total : ParsedTotals]

\* df.drop_duplicates(inplace=True), line 197: no two rows of df_manual are equal
ManualTables ==
    {t \in SeqsUpTo(ManualRows, MaxManual) :
        \A i, j \in 1..Len(t) : i # j => t[i] # t[j]}

\* The entries process_api_menu appends to menu (lines 228-259): the guest name
\* is always text; the pre-order items of a guest are Enhancement lines, and
\* the same product can come back twice with another price. No Food menu is
\* among them, so a Food row of the export finds no menu line.
MenuLine(type, item, price) ==
    [EventId |-> 101, Location |-> "box 12", Event |-> "arsenal v chelsea",
     Guest_name |-> "j smith", Guest_email |-> "j@x.com",
     Order_type |-> type, Menu_Item |-> item, ApiPrice |-> price]

MenuLines ==
    { MenuLine("Enhancement", "cake", 30000),
      MenuLine("Enhancement", "cake", 60000),
      MenuLine("Enhancement", "champagne", 90000) }

MenuKey(m) ==
    <<m.EventId, m.Location, m.Event, m.Guest_name, m.Guest_email, m.Order_type, m.Menu_Item>>

\* variant: the menu lines are not de-duplicated
drop_duplicates_menu_Skipped(menu) == menu

\* df_menu.drop_duplicates(subset=[...7 columns...]): the first line of each key
\* is kept
drop_duplicates_menu(menu) ==
    LET keep == {i \in 1..Len(menu) : \A j \in 1..(i - 1) : MenuKey(menu[j]) # MenuKey(menu[i])}
        F[i \in 0..Len(menu)] ==
            IF i = 0 THEN <<>>
            ELSE IF i \in keep THEN Append(F[i - 1], menu[i]) ELSE F[i - 1]
    IN  F[Len(menu)]

\* the df_menu tables process_api_menu can return
ApiMenus == {drop_duplicates_menu(menu) : menu \in SeqsUpTo(MenuLines, MaxMenu)}

merge_keys(r) ==
    <<r.EventId, r.Location, r.Event, r.Guest_name, r.Guest_email, r.Order_type>>

\* the rows one left row yields in a left join: one per matching right row, in
\* the right table's order, or one row with the right columns missing
MergeRow(m, src) ==
    [src |-> src, EventId |-> m.EventId, Location |-> m.Location, Event |-> m.Event,
     Guest_name |-> m.Guest_name, Guest_email |-> m.Guest_email,
     Order_type |-> m.Order_type, Ordered_on |-> m.Ordered_on, Total |-> m.Total,
     Menu_Item |-> NA, ApiPrice |-> NaN]

MatchesOf(m, src, menu) ==
    LET F[j \in 0..Len(menu)] ==
            IF j = 0 THEN <<>>
            ELSE IF merge_keys(menu[j]) = merge_keys(m)
                 THEN Append(F[j - 1], [MergeRow(m, src) EXCEPT !.Menu_Item = menu[j].Menu_Item,
                                                              !.ApiPrice = menu[j].ApiPrice])
                 ELSE F[j - 1]
    IN  F[Len(menu)]

LeftJoinRows(m, src, menu) ==
    IF MatchesOf(m, src, menu) = <<>> THEN <<MergeRow(m, src)>> ELSE MatchesOf(m, src, menu)

\* df_manual.merge(df_menu, how="left", on=merge_keys); the result has a fresh
\* RangeIndex, kept here as idx. src is the position of the df_manual row a
\* merged row comes from: it is no column of the DataFrame and is read only by
\* the properties.
Merge(manual, menu) ==
    LET F[i \in 0..Len(manual)] ==
            IF i = 0 THEN <<>> ELSE F[i - 1] \o LeftJoinRows(manual[i], i, menu)
        rows == F[Len(manual)]
    IN  [i \in 1..Len(rows) |->
            [idx |-> i, src |-> rows[i].src, EventId |-> rows[i].EventId,
             Location |-> rows[i].Location, Event |-> rows[i].Event,
             Guest_name |-> rows[i].Guest_name, Guest_email |-> rows[i].Guest_email,
             Order_type |-> rows[i].Order_type, Ordered_on |-> rows[i].Ordered_on,
             Total |-> rows[i].Total, Menu_Item |-> rows[i].Menu_Item,
             ApiPrice |-> rows[i].ApiPrice]]

\* merge_keys.append("Ordered_on"), line 278
group_keys(r) == merge_keys(r) \o <<r.Ordered_on>>

\* a text value's place in its column's sort order; missing values sort last
TextRank(col, x) ==
    IF IsNA(x) THEN Len(col) + 1 ELSE CHOOSE i \in 1..Len(col) : col[i] = x

NumberRank(col, x) ==
    IF IsNaN(x) THEN Len(col) + 1 ELSE CHOOSE i \in 1..Len(col) : col[i] = x

SortKey(r) ==
    <<NumberRank(EventIds, r.EventId), TextRank(Locations, r.Location),
      TextRank(Events, r.Event), TextRank(GuestNames, r.Guest_name),
      TextRank(GuestEmails, r.Guest_email), TextRank(OrderTypes, r.Order_type),
      NumberRank(OrderedOns, r.Ordered_on)>>

\* lexicographic order of two sort keys
KeyLess(a, b) ==
    \E i \in 1..Len(a) : a[i] < b[i] /\ \A j \in 1..(i - 1) : a[j] = b[j]

\* df.sort_values(merge_keys): a stable sort on several columns, so rows with
\* equal keys keep the order of the join
RECURSIVE sort_values(_)
sort_values(df) ==
    IF df = <<>> THEN <<>>
    ELSE LET rest == sort_values(SubSeq(df, 1, Len(df) - 1))
             x == df[Len(df)]
             k == Cardinality({i \in 1..Len(rest) : ~KeyLess(SortKey(x), SortKey(rest[i]))})
         IN  SubSeq(rest, 1, k) \o <<x>> \o SubSeq(rest, k + 1, Len(rest))

\* variants of clear_lumpsums: the last row of the group keeps its amount
clear_lumpsums_KeepLast(grp) ==
    [i \in 1..Len(grp) |-> IF i < Len(grp) THEN [grp[i] EXCEPT !.Total = 0] ELSE grp[i]]

\* the group's amounts are added up into its first row and the later rows are
\* left as they are
clear_lumpsums_SumIntoFirst(grp) ==
    LET F[i \in 0..Len(grp)] == IF i = 0 THEN 0 ELSE F[i - 1] + grp[i].Total
    IN  [i \in 1..Len(grp) |-> IF i = 1 THEN [grp[i] EXCEPT !.Total = F[Len(grp)]] ELSE grp[i]]

\* clear_lumpsums (lines 280-283): grp.iloc[1:, Total] = 0
clear_lumpsums(grp) ==
    IF Len(grp) > 1
    THEN [i \in 1..Len(grp) |-> IF i >= 2 THEN [grp[i] EXCEPT !.Total = 0] ELSE grp[i]]
    ELSE grp

\* groupby's default dropna=True: a row with a missing value in a key column
\* belongs to no group
HasMissingKey(r) ==
    \/ IsNaN(r.EventId) \/ IsNA(r.Location) \/ IsNA(r.Event) \/ IsNA(r.Guest_name)
    \/ IsNA(r.Guest_email) \/ IsNA(r.Order_type) \/ IsNaN(r.Ordered_on)

\* df.groupby(merge_keys, group_keys=False).apply(clear_lumpsums) on the sorted
\* table: the groups in key order, each through clear_lumpsums, concatenated
groupby_apply(df) ==
    LET grouped == SelectSeq(df, LAMBDA r : ~HasMissingKey(r))
        \* the first row of every group, in order
        firsts == {i \in 1..Len(grouped) :
                     \A j \in 1..(i - 1) : group_keys(grouped[j]) # group_keys(grouped[i])}
        Group(i) == SelectSeq(grouped, LAMBDA r : group_keys(r) = group_keys(grouped[i]))
        F[i \in 0..Len(grouped)] ==
            IF i = 0 THEN <<>>
            ELSE IF i \in firsts THEN F[i - 1] \o clear_lumpsums(Group(i)) ELSE F[i - 1]
    IN  F[Len(grouped)]

\* the columns of a merged row (idx is the index, src is not in the DataFrame)
Columns(r) ==
    <<r.EventId, r.Location, r.Event, r.Guest_name, r.Guest_email, r.Order_type,
      r.Ordered_on, r.Total, r.Menu_Item, r.ApiPrice>>

\* .drop_duplicates(): of rows equal in every column the first is kept
drop_duplicates(df) ==
    LET keep == {i \in 1..Len(df) : \A j \in 1..(i - 1) : Columns(df[j]) # Columns(df[i])}
        F[i \in 0..Len(df)] ==
            IF i = 0 THEN <<>>
            ELSE IF i \in keep THEN Append(F[i - 1], df[i]) ELSE F[i - 1]
    IN  F[Len(df)]

lumpsum_deduping(df) == drop_duplicates(groupby_apply(sort_values(df)))

LinkInit ==
    /\ df_manual \in ManualTables
    /\ df_menu \in ApiMenus
    /\ df_merged_raw = <<>>
    /\ df_merged = <<>>
    /\ link_pc = "merge"
    /\ StatusIdle
    /\ RunIdle
    /\ ExtIdle

\* line 376
MergeManualAndMenu ==
    /\ link_pc = "merge"
    /\ df_merged_raw' = Merge(df_manual, df_menu)
    /\ link_pc' = "dedup"
    /\ UNCHANGED <<df_manual, df_menu, df_merged, status_vars, run_vars, ext_vars>>

\* line 377
LumpsumDeduping ==
    /\ link_pc = "dedup"
    /\ df_merged' = lumpsum_deduping(df_merged_raw)
    /\ link_pc' = "done"
    /\ UNCHANGED <<df_manual, df_menu, df_merged_raw, status_vars, run_vars, ext_vars>>

LinkNext == MergeManualAndMenu \/ LumpsumDeduping

SpecLink == LinkInit /\ [][LinkNext]_vars

(***************************************************************************)
(* Claims about the linkage                                                *)
(***************************************************************************)

RECURSIVE SumTotal(_)
SumTotal(df) == IF df = <<>> THEN 0 ELSE df[1].Total + SumTotal(Tail(df))

\* C5 as stated, for any amounts ingestion can produce: the sum of Total after
\* lumpsum_deduping is at most the sum of Total before it. Stated on the tables
\* in which every row has all its key columns, where no row is left out of the
\* groups and the sum changes by the zeroing alone.
C5_SumNeverIncreases ==
    (link_pc = "done" /\ \A i \in 1..Len(df_merged_raw) : ~HasMissingKey(df_merged_raw[i]))
        => SumTotal(df_merged) <= SumTotal(df_merged_raw)

\* C5 amended: when no Total of the merged table is negative, the sum of Total
\* after lumpsum_deduping is at most the sum of Total before it.
C5_SumNeverIncreasesNonNegative ==
    (link_pc = "done" /\ \A i \in 1..Len(df_merged_raw) : df_merged_raw[i].Total >= 0)
        => SumTotal(df_merged) <= SumTotal(df_merged_raw)

\* C5 witness: de-duplication lowered the sum of a table without negative Totals.
C5_Witness ==
    /\ link_pc = "done"
    /\ \A i \in 1..Len(df_merged_raw) : df_merged_raw[i].Total >= 0
    /\ Len(df_merged) >= 2
    /\ SumTotal(df_merged) < SumTotal(df_merged_raw)

\* the rows of the join that stand before row p in the same group
EarlierInGroup(p) ==
    {q \in 1..(p - 1) : group_keys(df_merged_raw[q]) = group_keys(df_merged_raw[p])}

\* C7: after lumpsum_deduping every row is a row of the join, unchanged but for
\* Total: the first row of its (join key, Ordered_on) group keeps its Total, a
\* later row of the group has Total 0, and so a row alone in its group keeps it.
C7_OnlyFirstKeepsTotal ==
    link_pc = "done" =>
        \A i \in 1..Len(df_merged) :
            LET r == df_merged[i]
                o == df_merged_raw[r.idx]
            IN  /\ r = [o EXCEPT !.Total = r.Total]
                /\ r.Total = IF EarlierInGroup(r.idx) = {} THEN o.Total ELSE 0

\* C7 witness: a group of two rows, both with a Total before, of which the first
\* kept 7.00 and the second was set to 0, beside a row alone in its group.
C7_Witness ==
    /\ link_pc = "done"
    /\ \E i, j, k \in 1..Len(df_merged) :
        /\ i < j
        /\ group_keys(df_merged[i]) = group_keys(df_merged[j])
        /\ df_merged[i].Total = 7000
        /\ df_merged_raw[df_merged[j].idx].Total = 7000
        /\ df_merged[j].Total = 0
        /\ group_keys(df_merged[k]) # group_keys(df_merged[i])
        /\ df_merged[k].Total = -5000

\* the columns a merged row takes from the pre-order export, Total aside
ManualColumns(r) == group_keys(r)

\* C8 as stated: every row of df_manual is represented by at least one row of
\* the merged table after the join and the de-duplication.
C8_NoRecordLost ==
    link_pc = "done" =>
        \A m \in 1..Len(df_manual) :
            \E i \in 1..Len(df_merged) : ManualColumns(df_merged[i]) = ManualColumns(df_manual[m])

Key7(r) ==
    <<r.EventId, r.Location, r.Event, r.Guest_name, r.Guest_email, r.Order_type, r.Menu_Item>>

\* C9 as stated: no two rows of the merged table share (event id, location,
\* event, guest name, guest email, order type, menu item).
C9_UniquelyKeyed ==
    link_pc = "done" =>
        \A i, j \in 1..Len(df_merged) : i # j => Key7(df_merged[i]) # Key7(df_merged[j])

\* C9 amended: no two rows of the merged table that come from the same row of
\* the pre-order export share that key.
C9_UniquelyKeyedPerRecord ==
    link_pc = "done" =>
        \A i, j \in 1..Len(df_merged) :
            (i # j /\ df_merged[i].src = df_merged[j].src)
                => Key7(df_merged[i]) # Key7(df_merged[j])

\* C9 witness: one export row is in the merged table twice, once per menu line,
\* and another export row has the same join key.
C9_Witness ==
    /\ link_pc = "done"
    /\ \E i, j, k \in 1..Len(df_merged) :
        /\ i # j /\ df_merged[i].src = df_merged[j].src
        /\ df_merged[k].src # df_merged[i].src
        /\ Key7(df_merged[k]) = Key7(df_merged[i])

\* the rows of the join in which export row m is matched with a menu line
MatchedRows(m) ==
    {i \in 1..Len(df_merged_raw) : df_merged_raw[i].src = m /\ ~IsNaN(df_merged_raw[i].ApiPrice)}

\* C10 as stated: every row of the export is joined to at most one menu line.
C10_AtMostOneMenuLine ==
    link_pc = "dedup" => \A m \in 1..Len(df_manual) : Cardinality(MatchedRows(m)) <= 1

\* C10 amended: every row of the export is joined to at most one menu line per
\* menu item, and to exactly the menu lines of df_menu that have its join key.
C10_AtMostOneLinePerItem ==
    link_pc = "dedup" =>
        \A m \in 1..Len(df_manual) :
            /\ \A i, j \in MatchedRows(m) :
                   i # j => df_merged_raw[i].Menu_Item # df_merged_raw[j].Menu_Item
            /\ Cardinality(MatchedRows(m)) =
                   Cardinality({j \in 1..Len(df_menu) :
                                   merge_keys(df_menu[j]) = merge_keys(df_manual[m])})

\* C10 witness: a row of the export joined to two menu lines.
C10_Witness ==
    /\ link_pc = "dedup"
    /\ \E m \in 1..Len(df_manual) : Cardinality(MatchedRows(m)) = 2

(***************************************************************************)
(* run(): the consolidated payment section (lines 498-733)                  *)
(***************************************************************************)

\* bound: rows of the merged table that reach line 498
MaxLines == 2

\* str.strip().str.lower(), and for a Location the replacement of a leading
\* "exec " by "executive " (standardize_location, lines 13-25), on the texts
\* the tables of the model hold
Lower(text) ==
    CASE text = "Arsenal v Chelsea" -> "arsenal v chelsea"
      [] text = "Arsenal v Spurs" -> "arsenal v spurs"
      [] text = "Box 12" -> "box 12"
      [] text = "Exec 3" -> "exec 3"
      [] text = "Executive 3" -> "executive 3"
      [] text = "Total" -> "total"
      [] text = "J@X.com" -> "j@x.com"
      [] OTHER -> text

standardize_location(loc) ==
    IF Lower(loc) = "exec 3" THEN "executive 3" ELSE Lower(loc)

\* str.contains("total") on a lower-cased Location
ContainsTotal(loc) == Lower(loc) \in {"total"}

\* the standardized locations in sort order, for groupby
StdLocations == <<"box 12", "executive 3">>

\* the fixture list's rows for the selected fixture
FixtureName == "Arsenal v Chelsea"

FixtureDate == "2024-09-01"

\* A row of df_merged after the rename of line 498: the columns the section
\* reads. Location was stripped at ingestion and is not lower-cased yet.
MergedLines ==
    [Location : {"Box 12", "Exec 3"},
     Fixture : {<<"Arsenal v Chelsea", "2024-09-01">>, <<"Arsenal v Chelsea", "2024-09-15">>,
                <<"Arsenal v Spurs", "2024-09-01">>},
     PreOrderStatus : {"Completed", "Pending"},
     PreOrderTotal : {250000, 500000}]

MergedLine(l) ==
    [Location |-> l.Location, Event |-> l.Fixture[1], Event_Date |-> l.Fixture[2],
     PreOrderStatus |-> l.PreOrderStatus, PreOrderTotal |-> l.PreOrderTotal]

\* the merged table is not empty here (lines 378-380, 427-429)
MergedTables ==
    {[i \in 1..Len(t) |-> MergedLine(t[i])] : t \in SeqsUpTo(MergedLines, MaxLines) \ {<<>>}}

\* the cells of the consolidated payment export
Cell(loc, drawdown, credit, po, eft) ==
    [Location |-> loc, Drawdown |-> drawdown, CreditCard |-> credit,
     PurchaseOrders |-> po, EFT |-> eft]

Zero == <<"£", "0", ".", "0", "0">>

Pounds250 == <<"£", "2", "5", "0", ".", "0", "0">>

Pounds500 == <<"£", "5", "0", "0", ".", "0", "0">>

\* the uploaded consolidated payment files; <<>> is no upload
ConsolidatedFiles ==
    { <<>>,
      <<Cell("Box 12", Zero, Pounds500, Zero, Zero)>>,
      <<Cell("Box 12", Zero, <<"5", "0", "0", ".", "0", "0", "4">>, Zero, Zero)>>,
      <<Cell("Box 12", Zero, <<"5", "0", "0", ".", "0", "1">>, Zero, Zero)>>,
      <<Cell("Box 12", Zero, <<"5", "0", "0", ".", "0", "2">>, Zero, Zero)>>,
      <<Cell("Box 12", Pounds250, Zero, Zero, Zero),
        Cell("Executive 3", Zero, Zero, Zero, Pounds250),
        Cell("Total", Pounds250, Zero, Zero, Pounds250)>>,
      <<Cell("Box 12", Pounds250, Zero, Zero, Zero),
        Cell("Box 12", Zero, Pounds250, Zero, Zero)>>,
      <<Cell("Executive 3", Zero, <<>>, Pounds500, <<"n", "/", "a">>)>> }

\* lines 299-301: strip "£" and ",", parse, 0 where the text is no number
ParseAmount(cell) ==
    LET value == ToNumeric(StripCurrency(cell))
    IN  IF IsNaN(value) THEN 0 ELSE value

\* preprocess_consolidated_payment_report (lines 287-302): the rows whose
\* Location holds "total" are dropped and the four currency columns parsed
preprocess_consolidated_payment_report(file) ==
    LET kept == SelectSeq(file, LAMBDA c : ~ContainsTotal(c.Location))
    IN  [i \in 1..Len(kept) |->
            [Location |-> kept[i].Location,
             Drawdown |-> ParseAmount(kept[i].Drawdown),
             CreditCard |-> ParseAmount(kept[i].CreditCard),
             PurchaseOrders |-> ParseAmount(kept[i].PurchaseOrders),
             EFT |-> ParseAmount(kept[i].EFT)]]

\* the columns preprocess_manual subscripts, in the order of lines 183-191;
\* the first one that is absent raises KeyError
SubscriptedColumns == <<"Location", "Event", "Order_type", "Guest_name", "Total">>

MissingColumn(columns, required) ==
    LET absent == {i \in 1..Len(required) : required[i] \notin columns}
    IN  IF absent = {} THEN ""
        ELSE required[CHOOSE i \in absent : \A j \in absent : i <= j]

\* the message of the KeyError pandas raises for a column
KeyError(column) ==
    CASE column = "Location" -> "KeyError: 'Location'"
      [] column = "Event" -> "KeyError: 'Event'"
      [] column = "Order_type" -> "KeyError: 'Order_type'"
      [] column = "Guest_name" -> "KeyError: 'Guest_name'"
      [] column = "Total" -> "KeyError: 'Total'"
      [] column = "Drawdown" -> "KeyError: 'Drawdown'"
      [] column = "CreditCard" -> "KeyError: 'Credit Card'"
      [] column = "PurchaseOrders" -> "KeyError: 'Purchase orders'"
      [] column = "EFT" -> "KeyError: 'EFT'"
      [] column = "EventId" -> "KeyError: 'EventId'"
      [] OTHER -> ""

\* line 293, with "Credit card" renamed at line 291: the columns kept
keep_cols == <<"Location", "Drawdown", "CreditCard", "PurchaseOrders", "EFT">>

\* the columns of a consolidated export, read off its rows
ConsolidatedColumns(file) ==
    IF file = <<>> THEN SeqRange(keep_cols) ELSE DOMAIN file[1]

\* preprocess_consolidated_payment_report with the KeyError of df[keep_cols]
read_consolidated(file) ==
    IF MissingColumn(ConsolidatedColumns(file), keep_cols) # ""
    THEN [error |-> KeyError(MissingColumn(ConsolidatedColumns(file), keep_cols)), df |-> <<>>]
    ELSE [error |-> "", df |-> preprocess_consolidated_payment_report(file)]

\* variant: the fixture name is injected as selected, not lower-cased
InjectFixture_AsSelected(df, event, date) ==
    [i \in 1..Len(df) |->
        [Location |-> df[i].Location, Drawdown |-> df[i].Drawdown,
         CreditCard |-> df[i].CreditCard, PurchaseOrders |-> df[i].PurchaseOrders,
         EFT |-> df[i].EFT, Event |-> event, EventDate |-> date]]

\* lines 549-578: Event and EventDate are taken from the selection, the rows
\* that match the selection are kept and Location is standardized
InjectFixture(df, event, date) ==
    [i \in 1..Len(df) |->
        [Location |-> df[i].Location, Drawdown |-> df[i].Drawdown,
         CreditCard |-> df[i].CreditCard, PurchaseOrders |-> df[i].PurchaseOrders,
         EFT |-> df[i].EFT, Event |-> Lower(event), EventDate |-> date]]

MatchMask(df, event, date) ==
    {i \in 1..Len(df) : df[i].Event = Lower(event) /\ df[i].EventDate = date}

StandardizeConsolidated(df) ==
    [i \in 1..Len(df) |-> [df[i] EXCEPT !.Location = standardize_location(df[i].Location)]]

\* variants of the filter of completed orders
CompletedOrders_AnyStatus(df, event, date) ==
    SelectSeq([i \in 1..Len(df) |->
                  [df[i] EXCEPT !.Location = standardize_location(df[i].Location),
                                !.Event = Lower(df[i].Event)]],
              LAMBDA r : r.Event = Lower(event) /\ r.Event_Date = date)

\* lines 581-590: standardize Location, lower-case Event, keep the Completed
\* rows of the selected event and date
CompletedOrders(df, event, date) ==
    SelectSeq([i \in 1..Len(df) |->
                  [df[i] EXCEPT !.Location = standardize_location(df[i].Location),
                                !.Event = Lower(df[i].Event)]],
              LAMBDA r : /\ r.PreOrderStatus = "Completed"
                         /\ r.Event = Lower(event) /\ r.Event_Date = date)

\* lines 597-602: groupby(["Location", "Event"]).sum(), one row per group in
\* key order (one event is left after the filter)
BoxTotals(completed) ==
    LET present == SelectSeq(StdLocations,
                             LAMBDA loc : \E i \in 1..Len(completed) : completed[i].Location = loc)
        Rows(loc) == SelectSeq(completed, LAMBDA r : r.Location = loc)
        Sum(rows) ==
            LET F[i \in 0..Len(rows)] == IF i = 0 THEN 0 ELSE F[i - 1] + rows[i].PreOrderTotal
            IN  F[Len(rows)]
    IN  [k \in 1..Len(present) |->
            [Location |-> present[k], Event |-> Rows(present[k])[1].Event,
             BoxTotal |-> Sum(Rows(present[k]))]]

\* line 605: df_box_totals.merge(df_consolidated, how="left", on=["Location",
\* "Event"]); line 606: PaymentStatus
BoxRow(b, c) ==
    [Location |-> b.Location, Event |-> b.Event, BoxTotal |-> b.BoxTotal,
     Drawdown |-> c.Drawdown, CreditCard |-> c.CreditCard,
     PurchaseOrders |-> c.PurchaseOrders, EFT |-> c.EFT]

NoPayment == [Drawdown |-> NaN, CreditCard |-> NaN, PurchaseOrders |-> NaN, EFT |-> NaN]

BoxMatches(b, consolidated) ==
    SelectSeq(consolidated, LAMBDA c : c.Location = b.Location /\ c.Event = b.Event)

MergeBoxTotals(box_totals, consolidated) ==
    LET RowsOf(b) ==
            IF BoxMatches(b, consolidated) = <<>> THEN <<BoxRow(b, NoPayment)>>
            ELSE [j \in 1..Len(BoxMatches(b, consolidated)) |->
                     BoxRow(b, BoxMatches(b, consolidated)[j])]
        F[i \in 0..Len(box_totals)] ==
            IF i = 0 THEN <<>> ELSE F[i - 1] \o RowsOf(box_totals[i])
    IN  [i \in 1..Len(F[Len(box_totals)]) |->
            [Location |-> F[Len(box_totals)][i].Location,
             Event |-> F[Len(box_totals)][i].Event,
             BoxTotal |-> F[Len(box_totals)][i].BoxTotal,
             Drawdown |-> F[Len(box_totals)][i].Drawdown,
             CreditCard |-> F[Len(box_totals)][i].CreditCard,
             PurchaseOrders |-> F[Len(box_totals)][i].PurchaseOrders,
             EFT |-> F[Len(box_totals)][i].EFT,
             PaymentStatus |-> assign_payment_status(F[Len(box_totals)][i])]]

\* .fillna(0).sum() of a column
FillNa0(x) == IF IsNaN(x) THEN 0 ELSE x

ColumnSum(column) ==
    LET F[i \in 0..Len(column)] == IF i = 0 THEN 0 ELSE F[i - 1] + FillNa0(column[i])
    IN  F[Len(column)]

\* lines 611-618
SumPreorders(box_totals) ==
    ColumnSum([i \in 1..Len(box_totals) |-> box_totals[i].BoxTotal])

SumConsolidated(box_merged) ==
    ColumnSum([i \in 1..Len(box_merged) |-> box_merged[i].Drawdown])
    + ColumnSum([i \in 1..Len(box_merged) |-> box_merged[i].CreditCard])
    + ColumnSum([i \in 1..Len(box_merged) |-> box_merged[i].PurchaseOrders])
    + ColumnSum([i \in 1..Len(box_merged) |-> box_merged[i].EFT])

\* line 621: 0.01, in thousandths
tolerance == 10

Abs(x) == IF x < 0 THEN 0 - x ELSE x

\* variants of the comparison of line 622
SumsDiffer_Strict(a, b) == Abs(a - b) >= tolerance

\* line 622
SumsDiffer(a, b) == Abs(a - b) > tolerance

RunInit ==
    /\ pc = "merged_export"
    /\ df_merged_final \in MergedTables
    /\ consolidated_file \in ConsolidatedFiles
    /\ selected_event = FixtureName
    /\ selected_event_date = FixtureDate
    /\ df_consolidated = <<>> /\ df_completed = <<>> /\ df_box_totals = <<>>
    /\ df_box_merged = <<>> /\ sum_preorders = NaN /\ sum_consolidated = NaN
    /\ message = "" /\ merged_download = FALSE /\ final_download = FALSE
    /\ StatusIdle
    /\ LinkIdle
    /\ ExtIdle

\* lines 515-538: the merged table is offered for download
ExportMerged ==
    /\ pc = "merged_export"
    /\ merged_download' = TRUE
    /\ pc' = "consolidated"
    /\ UNCHANGED <<df_merged_final, consolidated_file, selected_event, selected_event_date,
                   df_consolidated, df_completed, df_box_totals, df_box_merged,
                   sum_preorders, sum_consolidated, message, final_download,
                   status_vars, link_vars, ext_vars>>

\* lines 542, 732-733: without a consolidated file the run ends with a hint
NoConsolidatedFile ==
    /\ pc = "consolidated"
    /\ consolidated_file = <<>>
    /\ message' = "Please upload an event consolidated payment file"
    /\ pc' = "done"
    /\ UNCHANGED <<df_merged_final, consolidated_file, selected_event, selected_event_date,
                   df_consolidated, df_completed, df_box_totals, df_box_merged,
                   sum_preorders, sum_consolidated, merged_download, final_download,
                   status_vars, link_vars, ext_vars>>

\* lines 545-578: the file is preprocessed (a KeyError of df[keep_cols] ends
\* the run), the fixture injected and compared with the selection, and
\* Location standardized
ProcessConsolidated ==
    /\ pc = "consolidated"
    /\ consolidated_file # <<>>
    /\ LET df == InjectFixture(read_consolidated(consolidated_file).df,
                               selected_event, selected_event_date)
           match_count == Cardinality(MatchMask(df, selected_event, selected_event_date))
       IN  IF read_consolidated(consolidated_file).error # ""
           THEN /\ message' = read_consolidated(consolidated_file).error
                /\ pc' = "crashed"
                /\ UNCHANGED df_consolidated
           ELSE IF match_count # Len(df)
           THEN /\ message' = "The consolidated payment file does not match the selected fixture"
                /\ pc' = "stopped"
                /\ UNCHANGED df_consolidated
           ELSE /\ df_consolidated' = StandardizeConsolidated(df)
                /\ pc' = "completed"
                /\ UNCHANGED message
    /\ UNCHANGED <<df_merged_final, consolidated_file, selected_event, selected_event_date,
                   df_completed, df_box_totals, df_box_merged,
                   sum_preorders, sum_consolidated, merged_download, final_download,
                   status_vars, link_vars, ext_vars>>

\* lines 581-594
FilterCompleted ==
    /\ pc = "completed"
    /\ df_completed' = CompletedOrders(df_merged_final, selected_event, selected_event_date)
    /\ IF df_completed' = <<>>
       THEN /\ message' = "No Completed Pre-orders found for the selected event and date"
            /\ pc' = "stopped"
       ELSE /\ pc' = "box_totals"
            /\ UNCHANGED message
    /\ UNCHANGED <<df_merged_final, consolidated_file, selected_event, selected_event_date,
                   df_consolidated, df_box_totals, df_box_merged,
                   sum_preorders, sum_consolidated, merged_download, final_download,
                   status_vars, link_vars, ext_vars>>

\* lines 597-602
ComputeBoxTotals ==
    /\ pc = "box_totals"
    /\ df_box_totals' = BoxTotals(df_completed)
    /\ pc' = "box_merged"
    /\ UNCHANGED <<df_merged_final, consolidated_file, selected_event, selected_event_date,
                   df_consolidated, df_completed, df_box_merged,
                   sum_preorders, sum_consolidated, message, merged_download, final_download,
                   status_vars, link_vars, ext_vars>>

\* lines 605-606
MergeBoxTotalsWithConsolidated ==
    /\ pc = "box_merged"
    /\ df_box_merged' = MergeBoxTotals(df_box_totals, df_consolidated)
    /\ pc' = "sum_check"
    /\ UNCHANGED <<df_merged_final, consolidated_file, selected_event, selected_event_date,
                   df_consolidated, df_completed, df_box_totals,
                   sum_preorders, sum_consolidated, message, merged_download, final_download,
                   status_vars, link_vars, ext_vars>>

\* variant: the mismatch is reported and the run goes on
AfterSumCheck_NoStop(differ) == "final"

\* lines 622-634: st.stop() after the error, else on to the export
AfterSumCheck(differ) == IF differ THEN "stopped" ELSE "final"

\* lines 611-634
SumCheck ==
    /\ pc = "sum_check"
    /\ sum_preorders' = SumPreorders(df_box_totals)
    /\ sum_consolidated' = SumConsolidated(df_box_merged)
    /\ message' = IF SumsDiffer(sum_preorders', sum_consolidated')
                  THEN "The sum of all preorders does not match the sum of consolidated payments"
                  ELSE "The sum of all preorders matches the sum of consolidated payments"
    /\ pc' = AfterSumCheck(SumsDiffer(sum_preorders', sum_consolidated'))
    /\ UNCHANGED <<df_merged_final, consolidated_file, selected_event, selected_event_date,
                   df_consolidated, df_completed, df_box_totals, df_box_merged,
                   merged_download, final_download, status_vars, link_vars, ext_vars>>

\* str.title() on the texts of the model
Title(text) ==
    CASE text = "box 12" -> "Box 12"
      [] text = "executive 3" -> "Executive 3"
      [] text = "arsenal v chelsea" -> "Arsenal V Chelsea"
      [] text = "arsenal v spurs" -> "Arsenal V Spurs"
      [] OTHER -> text

\* lines 643-645: the lambda over ConsolidatedPaymentType
payment_status_of_type(x) ==
    IF x \in {"Credit Card", "Purchase Orders", "EFT"} THEN "Completed"
    ELSE IF x = "Drawdown" THEN "Pending" ELSE ""

\* line 639: the rows of df_box_merged[["Location", "Event", "PaymentStatus"]]
\* with the keys of a completed line; a line without one keeps NaN
PaymentTypesOf(line, box_merged) ==
    LET found == SelectSeq(box_merged, LAMBDA b : b.Location = line.Location
                                                  /\ b.Event = line.Event)
    IN  IF found = <<>> THEN <<NA>>
        ELSE [j \in 1..Len(found) |-> found[j].PaymentStatus]

\* lines 642-649 and 677-682: the columns of a line of the export; ApiPrice is
\* renamed to TotalPrice and PreOrderTotal dropped
ExportLine(line, payment_type) ==
    LET kept == (DOMAIN line) \ {"PreOrderTotal", "ApiPrice", "Location", "Event"}
        price == IF "ApiPrice" \in DOMAIN line THEN {"TotalPrice"} ELSE {}
        added == {"Location", "Event", "ConsolidatedPaymentType", "ConsolidatedPaymentStatus"}
    IN  [c \in kept \cup price \cup added |->
            CASE c = "Location" -> Title(line.Location)
              [] c = "Event" -> Title(line.Event)
              [] c = "ConsolidatedPaymentType" -> payment_type
              [] c = "ConsolidatedPaymentStatus" -> payment_status_of_type(payment_type)
              [] c = "TotalPrice" -> line.ApiPrice
              [] OTHER -> line[c]]

\* lines 637-682: df_completed.merge(df_box_merged, how="left") and the columns
\* derived from it
FinalTable(completed, box_merged) ==
    LET F[i \in 0..Len(completed)] ==
            IF i = 0 THEN <<>>
            ELSE F[i - 1] \o [j \in 1..Len(PaymentTypesOf(completed[i], box_merged)) |->
                                 ExportLine(completed[i],
                                            PaymentTypesOf(completed[i], box_merged)[j])]
    IN  F[Len(completed)]

\* lines 637-730: the final table is built and offered for download
ExportFinal ==
    /\ pc = "final"
    /\ df_export' = FinalTable(df_completed, df_box_merged)
    /\ final_download' = TRUE
    /\ pc' = "done"
    /\ UNCHANGED <<df_merged_final, consolidated_file, selected_event, selected_event_date,
                   df_consolidated, df_completed, df_box_totals, df_box_merged,
                   sum_preorders, sum_consolidated, message, merged_download,
                   status_vars, link_vars, resolve_vars, api_vars, ingest_vars,
                   pipe_vars, sibling_vars>>

Next ==
    \/ ExportMerged
    \/ NoConsolidatedFile
    \/ ProcessConsolidated
    \/ FilterCompleted
    \/ ComputeBoxTotals
    \/ MergeBoxTotalsWithConsolidated
    \/ SumCheck
    \/ ExportFinal

Spec == RunInit /\ [][Next]_vars

(***************************************************************************)
(* Claims about the consolidated payment section                            *)
(***************************************************************************)

MismatchMessage == "The sum of all preorders does not match the sum of consolidated payments"

MatchMessage == "The sum of all preorders matches the sum of consolidated payments"

\* the sum check has run
Checked == ~IsNaN(sum_preorders)

\* C1: once the sum check has found the two sums more than 0.01 apart, the run
\* is stopped at the check, in every later state of the run, and the final
\* export has not been produced.
C1_MismatchStopsBeforeFinalExport ==
    (Checked /\ Abs(sum_preorders - sum_consolidated) > tolerance)
        => (pc = "stopped" /\ message = MismatchMessage /\ final_download = FALSE)

\* C1 witness: box totals of 500.00 against consolidated payments of 500.02;
\* the run stopped after the merged table had been offered for download.
C1_Witness ==
    /\ pc = "stopped" /\ Checked
    /\ sum_preorders = 500000 /\ sum_consolidated = 500020
    /\ merged_download = TRUE /\ final_download = FALSE

\* the sum of f over a finite set of indices
RECURSIVE SumOver(_, _)
SumOver(S, f) ==
    IF S = {} THEN 0
    ELSE LET x == CHOOSE y \in S : TRUE IN f[x] + SumOver(S \ {x}, f)

\* the sum of BoxTotal over the box totals
BoxTotalSum ==
    SumOver(1..Len(df_box_totals), [i \in 1..Len(df_box_totals) |-> df_box_totals[i].BoxTotal])

\* the sum of the four amounts over the pairs of a box total and a
\* consolidated row with its location and event
JoinedPaymentSum ==
    LET pairs == {p \in (1..Len(df_box_totals)) \X (1..Len(df_consolidated)) :
                    /\ df_box_totals[p[1]].Location = df_consolidated[p[2]].Location
                    /\ df_box_totals[p[1]].Event = df_consolidated[p[2]].Event}
    IN  SumOver(pairs, [p \in pairs |->
            df_consolidated[p[2]].Drawdown + df_consolidated[p[2]].CreditCard
            + df_consolidated[p[2]].PurchaseOrders + df_consolidated[p[2]].EFT])

Constituents(loc) ==
    {i \in 1..Len(df_merged_final) :
        /\ df_merged_final[i].PreOrderStatus = "Completed"
        /\ Lower(df_merged_final[i].Event) = Lower(selected_event)
        /\ df_merged_final[i].Event_Date = selected_event_date
        /\ standardize_location(df_merged_final[i].Location) = loc}

BoxRows(loc) == {k \in 1..Len(df_box_totals) : df_box_totals[k].Location = loc}

\* C6: each box total is the sum of PreOrderTotal over exactly the Completed
\* rows of the selected event and date at its location; a location without
\* such a row has no box total, and one with such rows has exactly one.
C6_BoxTotalIsSumOfCompleted ==
    (pc \in {"box_merged", "sum_check", "final", "done", "stopped"} /\ df_completed # <<>>) =>
        /\ \A k \in 1..Len(df_box_totals) :
               /\ df_box_totals[k].Location \in SeqRange(StdLocations)
               /\ df_box_totals[k].Event = Lower(selected_event)
        /\ \A loc \in SeqRange(StdLocations) :
               IF Constituents(loc) = {} THEN BoxRows(loc) = {}
               ELSE /\ Cardinality(BoxRows(loc)) = 1
                    /\ \A k \in BoxRows(loc) :
                           df_box_totals[k].BoxTotal =
                               SumOver(Constituents(loc),
                                       [i \in Constituents(loc) |-> df_merged_final[i].PreOrderTotal])

\* C6 witness: a box total of 750.00 made of two Completed rows.
C6_Witness ==
    /\ pc = "box_merged"
    /\ \E k \in 1..Len(df_box_totals) :
           /\ df_box_totals[k].BoxTotal = 750000
           /\ Cardinality(Constituents(df_box_totals[k].Location)) = 2

(***************************************************************************)
(* Reference resolution: the event_map of process_api_menu (lines 203-216), *)
(* map_event_id (lines 268-274) and its use in run() (lines 369-370)        *)
(***************************************************************************)

\* str.strip() on the texts the tables of the model hold
StripText(text) ==
    CASE text = " Box 12 " -> "Box 12"
      [] text = " Arsenal v Chelsea" -> "Arsenal v Chelsea"
      [] text = "Arsenal v Chelsea " -> "Arsenal v Chelsea"
      [] OTHER -> text

\* a timestamp is <<day, time of day>>; a missing one (None, NaT) is NaT
NaT == <<>>

IsNaT(x) == x = NaT

\* .date() keeps the day
ToDate(timestamp) == timestamp[1]

\* str(eid): the decimal digits of a non-negative id
RECURSIVE Str(_)
Str(n) == IF n < 10 THEN <<Digits[n + 1]>> ELSE Str(n \div 10) \o <<Digits[(n % 10) + 1]>>

\* pd.to_numeric(x, errors="coerce").fillna(0).astype(int), lines 360 and 370:
\* None and text that is no number become 0
ToInt(x) ==
    IF IsNA(x) THEN 0
    ELSE IF IsNaN(ToNumeric(x)) THEN 0 ELSE ToNumeric(x) \div 1000

\* The rows of df_api as far as the event map reads them: two fixtures of the
\* same name on two days, a row with white space around its texts, a row
\* without kick-off and a row without event id.
ApiEventRows ==
    { [EventId |-> 101, Location |-> "Box 12", Event |-> "Arsenal v Chelsea",
       KickOffEventStart |-> <<"2024-09-01", "15:00">>],
      [EventId |-> 102, Location |-> "Box 12", Event |-> "Arsenal v Chelsea",
       KickOffEventStart |-> <<"2024-09-15", "17:30">>],
      [EventId |-> 101, Location |-> " Box 12 ", Event |-> "Arsenal v Chelsea ",
       KickOffEventStart |-> <<"2024-09-01", "15:00">>],
      [EventId |-> 103, Location |-> "Box 12", Event |-> "Arsenal v Spurs",
       KickOffEventStart |-> NaT],
      [EventId |-> 0, Location |-> "Box 12", Event |-> "Arsenal v Spurs",
       KickOffEventStart |-> <<"2024-09-01", "15:00">>] }

\* The rows of df_manual as far as map_event_id reads them; Event_Date is a
\* timestamp at midnight, or NaT when the cell could not be parsed.
UnresolvedRows ==
    { [Location |-> "Box 12", Event |-> "Arsenal v Chelsea",
       Event_Date |-> <<"2024-09-01", "00:00">>],
      [Location |-> "box 12", Event |-> "arsenal v chelsea",
       Event_Date |-> <<"2024-09-01", "00:00">>],
      [Location |-> "Box 12", Event |-> " Arsenal v Chelsea",
       Event_Date |-> <<"2024-09-15", "00:00">>],
      [Location |-> "Box 12", Event |-> "Arsenal v Chelsea", Event_Date |-> NaT],
      [Location |-> "Box 12", Event |-> "Arsenal v Spurs",
       Event_Date |-> <<"2024-09-01", "00:00">>] }

\* lines 209-213: the key process_api_menu reads from a row of df_api
ApiKey(r) ==
    <<StripText(r.Location), StripText(r.Event),
      IF IsNaT(r.KickOffEventStart) THEN NA ELSE ToDate(r.KickOffEventStart)>>

\* line 215: eid and loc and evt and event_date_api
ApiKeyComplete(r) ==
    /\ r.EventId # 0
    /\ StripText(r.Location) # ""
    /\ StripText(r.Event) # ""
    /\ ~IsNaT(r.KickOffEventStart)

\* lines 202-216: the dictionary after the loop over df_api; a later row
\* with the same key overwrites the earlier one
BuildMap(api) ==
    LET F[i \in 0..Len(api)] ==
            IF i = 0 THEN <<>>
            ELSE IF ApiKeyComplete(api[i])
                 THEN [k \in (DOMAIN F[i - 1]) \cup {ApiKey(api[i])} |->
                          IF k = ApiKey(api[i]) THEN Str(api[i].EventId) ELSE F[i - 1][k]]
                 ELSE F[i - 1]
    IN  F[Len(api)]

\* variant: a record without date takes the id of an event of its name
map_event_id_AnyDate(r, map) ==
    LET loc == StripText(r.Location)
        evt == StripText(r.Event)
        date_val == IF IsNaT(r.Event_Date) THEN NA ELSE ToDate(r.Event_Date)
        same_name == {k \in DOMAIN map : k[1] = loc /\ k[2] = evt}
    IN  IF <<loc, evt, date_val>> \in DOMAIN map THEN map[<<loc, evt, date_val>>]
        ELSE IF IsNA(date_val) /\ same_name # {} THEN map[CHOOSE k \in same_name : TRUE]
        ELSE NA

\* map_event_id (lines 268-274): event_map.get((loc, evt, date_val), None)
map_event_id(r, map) ==
    LET loc == StripText(r.Location)
        evt == StripText(r.Event)
        date_val == IF IsNaT(r.Event_Date) THEN NA ELSE ToDate(r.Event_Date)
    IN  IF <<loc, evt, date_val>> \in DOMAIN map THEN map[<<loc, evt, date_val>>] ELSE NA

\* variant: the records that found no event are left out
MapRows_DropUnresolved(df, map) ==
    LET found == SelectSeq(df, LAMBDA r : ~IsNA(map_event_id(r, map)))
    IN  [i \in 1..Len(found) |->
            [Location |-> found[i].Location, Event |-> found[i].Event,
             Event_Date |-> found[i].Event_Date,
             EventId |-> ToInt(map_event_id(found[i], map))]]

\* lines 369-370: df_manual["EventId"] for every row, then to_numeric / fillna(0)
MapRows(df, map) ==
    [i \in 1..Len(df) |->
        [Location |-> df[i].Location, Event |-> df[i].Event,
         Event_Date |-> df[i].Event_Date,
         EventId |-> ToInt(map_event_id(df[i], map))]]

ResolveInit ==
    /\ df_api \in SeqsUpTo(ApiEventRows, MaxMenu)
    /\ df_unresolved \in SeqsUpTo(UnresolvedRows, MaxManual) \ {<<>>}
    /\ event_map = <<>>
    /\ df_resolved = <<>>
    /\ resolve_pc = "menu"
    /\ StatusIdle
    /\ LinkIdle
    /\ RunIdle
    /\ ApiIdle
    /\ IngestIdle
    /\ PipeIdle
    /\ MoreIdle

\* line 358: process_api_menu(df_api) returns the event map
BuildEventMap ==
    /\ resolve_pc = "menu"
    /\ event_map' = BuildMap(df_api)
    /\ resolve_pc' = "map"
    /\ UNCHANGED <<df_api, df_unresolved, df_resolved, core_vars, api_vars, ingest_vars, pipe_vars, more_vars>>

\* lines 369-370
MapEventIds ==
    /\ resolve_pc = "map"
    /\ df_resolved' = MapRows(df_unresolved, event_map)
    /\ resolve_pc' = "done"
    /\ UNCHANGED <<df_api, df_unresolved, event_map, core_vars, api_vars, ingest_vars, pipe_vars, more_vars>>

ResolveNext == BuildEventMap \/ MapEventIds

SpecResolve == ResolveInit /\ [][ResolveNext]_vars

(***************************************************************************)
(* Claims about reference resolution                                        *)
(***************************************************************************)

\* the normalization the contract asks for: trimmed and case-insensitive
Normalized(text) == Lower(StripText(text))

\* the API events that entered the lookup table and agree with a manual record
\* on location and event name up to case and white space, and on the date
SameEventUpToCase(m, api) ==
    {j \in 1..Len(api) :
        /\ ApiKeyComplete(api[j])
        /\ Normalized(api[j].Location) = Normalized(m.Location)
        /\ Normalized(api[j].Event) = Normalized(m.Event)
        /\ ~IsNaT(m.Event_Date)
        /\ ToDate(api[j].KickOffEventStart) = ToDate(m.Event_Date)}

\* C11: a manual record whose location and event name differ from an API
\* event's only in letter case or surrounding white space, with the same date,
\* resolves to the id of such an event.
C11_ResolvesUpToCaseAndSpace ==
    resolve_pc = "done" =>
        \A i \in 1..Len(df_unresolved) :
            SameEventUpToCase(df_unresolved[i], df_api) # {} =>
                \E j \in SameEventUpToCase(df_unresolved[i], df_api) :
                    df_resolved[i].EventId = df_api[j].EventId

\* the records whose key is not in the lookup table
Unresolved(i) ==
    <<StripText(df_unresolved[i].Location), StripText(df_unresolved[i].Event),
      IF IsNaT(df_unresolved[i].Event_Date) THEN NA ELSE ToDate(df_unresolved[i].Event_Date)>>
        \notin DOMAIN event_map

\* resolution keeps every record, in order, with its columns
AllRetained ==
    /\ Len(df_resolved) = Len(df_unresolved)
    /\ \A i \in 1..Len(df_unresolved) :
          /\ df_resolved[i].Location = df_unresolved[i].Location
          /\ df_resolved[i].Event = df_unresolved[i].Event
          /\ df_resolved[i].Event_Date = df_unresolved[i].Event_Date

\* C12 as stated: a record whose key is not in the lookup table has a null
\* event id in the table passed on to linkage, and no record is removed.
C12_UnresolvedNullAndRetained ==
    resolve_pc = "done" =>
        /\ AllRetained
        /\ \A i \in 1..Len(df_unresolved) :
              Unresolved(i) => IsNaN(df_resolved[i].EventId)

\* C12, amended: a record whose key is not in the lookup table has the event id
\* 0 in the table passed on to linkage (the None of map_event_id is filled with
\* 0 at line 370), every other record has the id of its table entry, and no
\* record is removed.
C12_UnresolvedZeroAndRetained ==
    resolve_pc = "done" =>
        /\ AllRetained
        /\ \A i \in 1..Len(df_unresolved) :
              /\ Unresolved(i) => df_resolved[i].EventId = 0
              /\ ~Unresolved(i) => df_resolved[i].EventId \in {101, 102}

\* an unresolved record next to a resolved one, both in the resolved table
C12_Witness ==
    /\ resolve_pc = "done"
    /\ Len(df_resolved) >= 2
    /\ \E i, j \in 1..Len(df_unresolved) :
          /\ Unresolved(i) /\ df_resolved[i].EventId = 0
          /\ ~Unresolved(j) /\ df_resolved[j].EventId # 0

\* C13: a manual record that has no event date is never given the id of an
\* API event, whatever events of its location and name the API lists.
C13_NoDateNeverResolved ==
    resolve_pc = "done" =>
        \A i \in 1..Len(df_unresolved) :
            IsNaT(df_unresolved[i].Event_Date) =>
                /\ df_resolved[i].EventId = 0
                /\ \A j \in 1..Len(df_api) :
                      ApiKeyComplete(df_api[j]) => df_resolved[i].EventId # df_api[j].EventId

\* a record without date, and two API events of its location and name on two
\* different days in the lookup table
C13_Witness ==
    /\ resolve_pc = "done"
    /\ \E i \in 1..Len(df_unresolved) :
          /\ IsNaT(df_unresolved[i].Event_Date)
          /\ \E k1, k2 \in DOMAIN event_map :
                /\ k1[3] # k2[3]
                /\ k1[1] = StripText(df_unresolved[i].Location)
                /\ k2[1] = StripText(df_unresolved[i].Location)
                /\ k1[2] = StripText(df_unresolved[i].Event)
                /\ k2[2] = StripText(df_unresolved[i].Event)

(***************************************************************************)
(* src/tjt_hosp_api.py: the token (lines 13-46) and the calls to the API    *)
(* (lines 49-111). A token is the number the server issued it under, None   *)
(* is NaN, and the clock counts seconds.                                    *)
(***************************************************************************)

\* bound: the seconds the clock runs
MaxTime == 3

\* the expires_in values of a token response, in seconds
Lifetimes == {1, 3}

\* the event lists Events/List can answer with
ApiEventLists == {<<>>, <<101>>, <<101, 102>>}

\* the outcomes of requests.post(token_url): a token and its lifetime, or a
\* status other than 200
TokenResponses == [status : {200}, expires_in : Lifetimes] \cup {[status |-> 500]}

\* get_access_token (lines 15-32) on a response: <<return value,
\* token_expiry_time, issued>>
get_access_token(response) ==
    IF response.status = 200
    THEN <<Len(issued) + 1, now + response.expires_in,
           Append(issued, now + response.expires_in)>>
    ELSE <<NaN, token_expiry_time, issued>>

\* line 36: token_expiry_time is None or datetime.now() >= token_expiry_time
NeedsRefresh == IsNaN(token_expiry_time) \/ now >= token_expiry_time

\* refresh_token_if_needed (lines 34-37): only the globals access_token and
\* token_expiry_time are assigned
refresh_token_if_needed(response) ==
    IF NeedsRefresh
    THEN /\ access_token' = get_access_token(response)[1]
         /\ token_expiry_time' = get_access_token(response)[2]
         /\ issued' = get_access_token(response)[3]
    ELSE UNCHANGED <<access_token, token_expiry_time, issued>>

\* line 31: the failure of a token request is printed
RefreshLog(response) ==
    IF NeedsRefresh /\ response.status # 200
    THEN <<"Failed to retrieve access token">> ELSE <<>>

\* requests.get(url, headers=headers): the dictionary built at lines 43-46 is
\* sent as it is
HeadersSent(old_headers, current_token) == old_headers

\* the request that goes out: its url, the bearer token in its headers and
\* the time
Request(url) == [url |-> url, token |-> HeadersSent(headers, access_token'), at |-> now]

TjtInit ==
    /\ now = 0 /\ token_expiry_time = NaN /\ access_token = NaN /\ headers = NaN
    /\ issued = <<>> /\ sent = <<>> /\ tjt_pc = "token" /\ event_list = <<>>
    /\ event_index = 0 /\ merged_data = <<>> /\ printed = <<>> /\ saved = FALSE
    /\ StatusIdle
    /\ LinkIdle
    /\ RunIdle
    /\ ResolveIdle
    /\ IngestIdle
    /\ PipeIdle
    /\ MoreIdle

\* time passes between two statements
Tick ==
    /\ tjt_pc \in {"accounts", "events", "transactions"}
    /\ now < MaxTime
    /\ now' = now + 1
    /\ UNCHANGED <<token_expiry_time, access_token, headers, issued, sent, tjt_pc,
                   event_list, event_index, merged_data, printed, saved,
                   core_vars, resolve_vars,
                   ingest_vars, pipe_vars, more_vars>>

\* lines 40-46: the initial token, and the headers built from it
InitialToken ==
    /\ tjt_pc = "token"
    /\ \E response \in TokenResponses :
          /\ access_token' = get_access_token(response)[1]
          /\ token_expiry_time' = get_access_token(response)[2]
          /\ issued' = get_access_token(response)[3]
          /\ printed' = IF response.status = 200 THEN printed
                        ELSE Append(printed, "Failed to retrieve access token")
    /\ headers' = access_token'
    /\ tjt_pc' = "accounts"
    /\ UNCHANGED <<now, sent, event_list, event_index, merged_data, saved,
                   core_vars, resolve_vars,
                   ingest_vars, pipe_vars, more_vars>>

\* lines 49-59: Accounts/List
GetAccounts ==
    /\ tjt_pc = "accounts"
    /\ \E response \in TokenResponses, status \in {200, 500} :
          /\ refresh_token_if_needed(response)
          /\ sent' = Append(sent, Request("Accounts/List"))
          /\ printed' = printed \o RefreshLog(response) \o
                        (IF status = 200 THEN <<>> ELSE <<"Failed to retrieve accounts list">>)
    /\ tjt_pc' = "events"
    /\ UNCHANGED <<now, headers, event_list, event_index, merged_data, saved,
                   core_vars, resolve_vars,
                   ingest_vars, pipe_vars, more_vars>>

\* lines 62-74: Events/List
GetEvents ==
    /\ tjt_pc = "events"
    /\ \E response \in TokenResponses, status \in {200, 500}, events \in ApiEventLists :
          /\ refresh_token_if_needed(response)
          /\ sent' = Append(sent, Request("Events/List"))
          /\ event_list' = IF status = 200 THEN events ELSE <<>>
          /\ printed' = printed \o RefreshLog(response) \o
                        (IF status = 200 THEN <<>> ELSE <<"Failed to retrieve event list">>)
    /\ event_index' = 1
    /\ tjt_pc' = "transactions"
    /\ UNCHANGED <<now, headers, merged_data, saved, core_vars, resolve_vars,
                   ingest_vars, pipe_vars, more_vars>>

\* lines 77-111: one pass of the loop over event_list
GetTransactions ==
    /\ tjt_pc = "transactions"
    /\ event_index <= Len(event_list)
    /\ \E response \in TokenResponses, status \in {200, 500} :
          /\ refresh_token_if_needed(response)
          /\ sent' = Append(sent, Request(<<"HospitalitySaleTransactions/List",
                                            event_list[event_index]>>))
          /\ merged_data' = IF status = 200
                            THEN Append(merged_data, [EventId |-> event_list[event_index]])
                            ELSE merged_data
          /\ printed' = printed \o RefreshLog(response) \o
                        (IF status = 200 THEN <<>>
                         ELSE <<"Failed to retrieve transactions for EventId">>)
    /\ event_index' = event_index + 1
    /\ UNCHANGED <<now, headers, tjt_pc, event_list, saved, core_vars, resolve_vars,
                   ingest_vars, pipe_vars, more_vars>>

\* lines 113-259: after the loop the collected data are reshaped and saved
SaveTransactions ==
    /\ tjt_pc = "transactions"
    /\ event_index > Len(event_list)
    /\ saved' = TRUE
    /\ tjt_pc' = "done"
    /\ UNCHANGED <<now, token_expiry_time, access_token, headers, issued, sent,
                   event_list, event_index, merged_data, printed,
                   core_vars, resolve_vars,
                   ingest_vars, pipe_vars, more_vars>>

TjtNext ==
    \/ Tick
    \/ InitialToken
    \/ GetAccounts
    \/ GetEvents
    \/ GetTransactions
    \/ SaveTransactions

SpecTjt == TjtInit /\ [][TjtNext]_vars

(***************************************************************************)
(* Claims about the token                                                   *)
(***************************************************************************)

\* the token of a request had expired when the request was sent
Expired(request) == ~IsNaN(request.token) /\ request.at >= issued[request.token]

\* C14: no request to the API carries a bearer token whose expiry time has
\* passed: an expired token is refreshed before the call and the refreshed
\* token is the one sent.
C14_NoExpiredTokenSent ==
    \A i \in 1..Len(sent) : ~Expired(sent[i])

(***************************************************************************)
(* Ingestion: preprocess_manual (lines 178-198) and                         *)
(* preprocess_consolidated_payment_report (lines 286-302) on whole files    *)
(***************************************************************************)

\* line 182: df.columns.str.strip().str.replace(" ", "_") on the headers of
\* the pre-order export
HeaderName(header) ==
    CASE header = "Order type" -> "Order_type"
      [] header = "Guest name" -> "Guest_name"
      [] header = "Event Date" -> "Event_Date"
      [] header = "Ordered on" -> "Ordered_on"
      [] OTHER -> header

ManualHeaders ==
    {"Location", "Event", "Order type", "Guest name", "Total", "Event Date",
     "Ordered on", "Status"}

ColumnsOf(file) == {HeaderName(h) : h \in file.columns}

\* line 183: Location.ffill().astype(str).str.strip(); a missing first cell
\* becomes the text "nan"
Ffill(rows) ==
    LET F[i \in 0..Len(rows)] ==
            IF i = 0 THEN NA
            ELSE IF IsNA(rows[i].Location) THEN F[i - 1] ELSE rows[i].Location
    IN  [i \in 1..Len(rows) |->
            [rows[i] EXCEPT !.Location = IF IsNA(F[i]) THEN "nan" ELSE StripText(F[i])]]

\* line 185: dropna(subset=["Event", "Order_type"])
DropMissingKeys(rows) ==
    SelectSeq(rows, LAMBDA r : ~IsNA(r.Event) /\ ~IsNA(r.Order_type))

\* line 186: str.strip().str.split(", ")
SplitEvents(text) ==
    IF StripText(text) = "arsenal v chelsea, arsenal v spurs"
    THEN <<"arsenal v chelsea", "arsenal v spurs">>
    ELSE <<StripText(text)>>

\* line 187: explode("Event"), one row per event of the cell
Explode(rows) ==
    LET RowsOf(r) == [k \in 1..Len(SplitEvents(r.Event)) |->
                         [r EXCEPT !.Event = SplitEvents(r.Event)[k]]]
        F[i \in 0..Len(rows)] == IF i = 0 THEN <<>> ELSE F[i - 1] \o RowsOf(rows[i])
    IN  F[Len(rows)]

\* lines 188 and 190: the text between the brackets, as text and lower-cased;
\* a cell without brackets gives NaN, which astype(str) turns into "nan"
ExtractEmail(guest) ==
    IF guest = "j smith (J@X.com)" THEN Lower("J@X.com") ELSE "nan"

\* line 189: the text before the opening bracket, NaN without one
ExtractName(guest) ==
    IF guest = "j smith (J@X.com)" THEN "j smith" ELSE NA

\* line 196: pd.to_datetime(..., dayfirst=True, errors="coerce")
ParseDayFirst(cell) ==
    CASE cell = "01/09/2024" -> <<"2024-09-01", "00:00">>
      [] cell = "15/09/2024" -> <<"2024-09-15", "00:00">>
      [] OTHER -> NaT

\* lines 188-196 on one row; src is the row of the sheet it comes from and is
\* no column
ManualRecord(r, has_date) ==
    [src |-> r.src, Location |-> r.Location, Event |-> r.Event,
     Event_Date |-> IF has_date THEN ParseDayFirst(r.Event_Date) ELSE NaT,
     Guest_name |-> ExtractName(r.Guest_name), Guest_email |-> ExtractEmail(r.Guest_name),
     Order_type |-> r.Order_type, Ordered_on |-> r.Ordered_on, Status |-> r.Status,
     Total |-> ParseTotal(r.Total)]

ManualColumnsOf(r) ==
    <<r.Location, r.Event, r.Event_Date, r.Guest_name, r.Guest_email, r.Order_type,
      r.Ordered_on, r.Status, r.Total>>

\* line 197: df.drop_duplicates(inplace=True)
DropDuplicateRecords(df) ==
    LET keep == {i \in 1..Len(df) :
                    \A j \in 1..(i - 1) : ManualColumnsOf(df[j]) # ManualColumnsOf(df[i])}
        F[i \in 0..Len(df)] ==
            IF i = 0 THEN <<>>
            ELSE IF i \in keep THEN Append(F[i - 1], df[i]) ELSE F[i - 1]
    IN  F[Len(df)]

\* lines 183-197 on the rows of a sheet that has the subscripted columns
preprocess_manual_rows(rows, has_date) ==
    LET numbered == [i \in 1..Len(rows) |->
                        [src |-> i, Location |-> rows[i].Location, Event |-> rows[i].Event,
                         Order_type |-> rows[i].Order_type, Guest_name |-> rows[i].Guest_name,
                         Total |-> rows[i].Total, Event_Date |-> rows[i].Event_Date,
                         Ordered_on |-> rows[i].Ordered_on, Status |-> rows[i].Status]]
        exploded == Explode(DropMissingKeys(Ffill(numbered)))
    IN  DropDuplicateRecords([i \in 1..Len(exploded) |-> ManualRecord(exploded[i], has_date)])

\* preprocess_manual (lines 179-198): the frame it returns, or the KeyError of
\* the first subscripted column the sheet does not have. The frame says
\* whether it has the Event_Date column, which lines 195 and 365 test.
preprocess_manual(file) ==
    IF MissingColumn(ColumnsOf(file), SubscriptedColumns) # ""
    THEN [error |-> KeyError(MissingColumn(ColumnsOf(file), SubscriptedColumns)),
          has_event_date |-> "Event_Date" \in ColumnsOf(file), df |-> <<>>]
    ELSE [error |-> "", has_event_date |-> "Event_Date" \in ColumnsOf(file),
          df |-> preprocess_manual_rows(file.rows, "Event_Date" \in ColumnsOf(file))]

\* a row of the pre-order export
RawRow(location, event, order_type, guest, total, ordered_on) ==
    [Location |-> location, Event |-> event, Order_type |-> order_type,
     Guest_name |-> guest, Total |-> total, Event_Date |-> "01/09/2024",
     Ordered_on |-> ordered_on, Status |-> "Completed"]

\* rows of an export: a complete one, one without Event, one without
\* Order_type, one for two events, one whose Location cell is merged with the
\* row above, one without e-mail whose Total is text
IngestRawRows ==
    { RawRow("box 12", "arsenal v chelsea", "Food", "j smith (J@X.com)",
             <<"£", "7", ".", "0", "0">>, 1),
      RawRow("box 12", NA, "Food", "j smith (J@X.com)", <<"£", "7", ".", "0", "0">>, 1),
      RawRow("box 12", "arsenal v chelsea", NA, "j smith (J@X.com)",
             <<"£", "7", ".", "0", "0">>, 1),
      RawRow("box 12", "arsenal v chelsea, arsenal v spurs", "Food", "j smith (J@X.com)",
             <<"£", "7", ".", "0", "0">>, 1),
      RawRow(NA, "arsenal v chelsea", "Enhancement", "j smith (J@X.com)",
             <<"-", "£", "5", ".", "0", "0">>, 2),
      RawRow(" Box 12 ", "arsenal v chelsea", "Food", "j smith", <<"n", "/", "a">>, NaN) }

\* the uploads: every column, or one column absent
IngestManualFiles ==
    { [columns |-> cols, rows |-> rows] :
        cols \in {ManualHeaders} \cup {ManualHeaders \ {h} : h \in ManualHeaders \ {"Status", "Ordered on"}},
        rows \in SeqsUpTo(IngestRawRows, MaxManual) }

Minus250 == <<"-", "£", "2", "5", "0", ".", "0", "0">>

\* consolidated exports with a refund, and without the EFT or the Drawdown
\* column
IngestConsolidatedFiles ==
    (ConsolidatedFiles \ {<<>>})
    \cup { <<Cell("Box 12", Minus250, Zero, Zero, Pounds250)>>,
           <<[Location |-> "Box 12", Drawdown |-> Zero, CreditCard |-> Pounds500,
              PurchaseOrders |-> Zero]>>,
           <<[Location |-> "Box 12", CreditCard |-> Pounds500,
              PurchaseOrders |-> Zero, EFT |-> Zero]>> }

IngestInit ==
    /\ ingest_pc = "manual"
    /\ manual_upload \in IngestManualFiles
    /\ consolidated_upload \in IngestConsolidatedFiles
    /\ manual_result = <<>>
    /\ consolidated_result = <<>>
    /\ StatusIdle /\ LinkIdle /\ RunIdle /\ ResolveIdle /\ ApiIdle /\ PipeIdle
    /\ MoreIdle

\* line 322
PreprocessManual ==
    /\ ingest_pc = "manual"
    /\ manual_result' = preprocess_manual(manual_upload)
    /\ ingest_pc' = "consolidated"
    /\ UNCHANGED <<manual_upload, consolidated_upload, consolidated_result,
                   core_vars, resolve_vars, api_vars, pipe_vars, more_vars>>

\* line 545
PreprocessConsolidated ==
    /\ ingest_pc = "consolidated"
    /\ consolidated_result' = read_consolidated(consolidated_upload)
    /\ ingest_pc' = "done"
    /\ UNCHANGED <<manual_upload, manual_result, consolidated_upload,
                   core_vars, resolve_vars, api_vars, pipe_vars, more_vars>>

IngestNext == PreprocessManual \/ PreprocessConsolidated

SpecIngest == IngestInit /\ [][IngestNext]_vars

(***************************************************************************)
(* Claims about ingestion                                                  *)
(***************************************************************************)

\* the rows of the sheet that are in the frame preprocess_manual returns
RowsKept(result) == Cardinality({result.df[i].src : i \in 1..Len(result.df)})

\* the count of dropped rows in what preprocess_manual returns; it returns
\* the frame alone
RowsCountedAsDropped(result) ==
    IF "dropped" \in DOMAIN result THEN result.dropped ELSE 0

\* C19: after ingestion, the rows kept plus the rows counted as dropped are the
\* rows read, and no kept row lacks Event or Order_type.
C19_KeptPlusCountedIsRead ==
    (ingest_pc # "manual" /\ manual_result.error = "") =>
        /\ \A i \in 1..Len(manual_result.df) :
              ~IsNA(manual_result.df[i].Event) /\ ~IsNA(manual_result.df[i].Order_type)
        /\ RowsKept(manual_result) + RowsCountedAsDropped(manual_result)
              = Len(manual_upload.rows)

\* C20: every amount of every consolidated payment record that ingestion
\* produces is non-negative.
C20_AmountsNonNegative ==
    (ingest_pc = "done" /\ consolidated_result.error = "") =>
        \A i \in 1..Len(consolidated_result.df) :
            /\ consolidated_result.df[i].Drawdown >= 0
            /\ consolidated_result.df[i].CreditCard >= 0
            /\ consolidated_result.df[i].PurchaseOrders >= 0
            /\ consolidated_result.df[i].EFT >= 0

(***************************************************************************)
(* run(): from the uploaded pre-order export to the rename of line 498      *)
(* (lines 304-498), followed by the consolidated payment section            *)
(***************************************************************************)

\* the uploaded pre-order exports: an Enhancement row, an Enhancement and a
\* Food row, a row without Ordered_on, a row that is not Completed, and the
\* first export with one of its columns absent
PipelineRows ==
    [a |-> RawRow("box 12", "arsenal v chelsea", "Enhancement", "j smith (J@X.com)",
                  <<"£", "7", ".", "0", "0">>, 1),
     b |-> RawRow("box 12", "arsenal v chelsea", "Food", "j smith (J@X.com)",
                  <<"£", "7", ".", "0", "0">>, 2),
     c |-> RawRow("box 12", "arsenal v chelsea", "Food", "j smith (J@X.com)",
                  <<"£", "7", ".", "0", "0">>, NaN),
     d |-> [RawRow("box 12", "arsenal v chelsea", "Food", "j smith (J@X.com)",
                   <<"£", "7", ".", "0", "0">>, 1) EXCEPT !.Status = "Pending"]]

PipelineFiles ==
    { [columns |-> ManualHeaders, rows |-> <<PipelineRows.a>>],
      [columns |-> ManualHeaders, rows |-> <<PipelineRows.a, PipelineRows.b>>],
      [columns |-> ManualHeaders, rows |-> <<PipelineRows.c>>],
      [columns |-> ManualHeaders, rows |-> <<PipelineRows.d>>] }
    \cup { [columns |-> ManualHeaders \ {h}, rows |-> <<PipelineRows.a>>] :
             h \in ManualHeaders \ {"Status", "Ordered on"} }

\* the consolidated exports of these runs: none, one that agrees with the
\* pre-orders, one that does not, one without the EFT column
PipelineConsolidatedFiles ==
    { <<>>,
      <<Cell("Box 12", Zero, <<"£", "7", ".", "0", "0">>, Zero, Zero)>>,
      <<Cell("Box 12", Zero, Pounds500, Zero, Zero)>>,
      <<[Location |-> "Box 12", Drawdown |-> Zero, CreditCard |-> Pounds500,
         PurchaseOrders |-> Zero]>> }

\* lines 159-167: the events of Events/List as fetch_event_details returns them
ApiEvent(id, name, kickoff) == [EventId |-> id, Event |-> name, KickOffEventStart |-> kickoff]

EventsResponses ==
    { [status |-> 500, events |-> <<>>],
      [status |-> 200, events |-> <<>>],
      [status |-> 200,
       events |-> <<ApiEvent(101, "arsenal v chelsea", <<"2024-09-01", "15:00">>)>>],
      [status |-> 200,
       events |-> <<ApiEvent(101, "arsenal v chelsea", <<"2024-09-01", "15:00">>),
                    ApiEvent(102, "arsenal v spurs", <<"2024-09-15", "17:30">>)>>] }

\* lines 156-158: a status other than 200 gives no events
fetch_event_details(response) ==
    IF response.status # 200 THEN <<>> ELSE response.events

\* a pre-order of CateringPreorders/List: a guest of box 12 with two pre-order
\* items and no menu
Preorder(eid) ==
    [EventId |-> eid, Location |-> "box 12", Event |-> NA,
     Guest |-> "j smith (J@X.com)", Status |-> "Completed",
     PreOrderItems |-> <<[ProductName |-> "cake", OrderedAmount |-> 1, Price |-> 30000],
                         [ProductName |-> "champagne", OrderedAmount |-> 1, Price |-> 90000]>>]

\* the answers to the call for one event
PreorderResponses(eid) ==
    { [status |-> 500, preorders |-> <<>>],
      [status |-> 200, preorders |-> <<>>],
      [status |-> 200, preorders |-> <<Preorder(eid)>>] }

\* lines 173-175: the records of a 200 answer are added, another status adds
\* nothing
extend_all_data(data, response) ==
    IF response.status = 200 THEN data \o response.preorders ELSE data

\* variant: the loop is left after its first pass
AfterFetch_FirstOnly(next, n) == "merge_events"

\* line 172: the loop goes on while an event id is left
AfterFetch(next, n) == IF next > n THEN "merge_events" ELSE "preorders"

\* lines 350-353: df_api_pre.merge(df_events, how="left", on="EventId"); the
\* name and the kick-off of the event are taken from the event list
MergeEventsIntoPreorders(data, events) ==
    [i \in 1..Len(data) |->
        LET found == SelectSeq(events, LAMBDA e : e.EventId = data[i].EventId)
        IN  [EventId |-> data[i].EventId, Location |-> data[i].Location,
             Event |-> IF found = <<>> THEN data[i].Event ELSE found[1].Event,
             KickOffEventStart |-> IF found = <<>> THEN NaT ELSE found[1].KickOffEventStart,
             Guest |-> data[i].Guest, Status |-> data[i].Status,
             PreOrderItems |-> data[i].PreOrderItems]]

\* lines 204-208: the name before the bracket and the lower-cased e-mail in it
ApiGuestName(guest) == IF guest = "j smith (J@X.com)" THEN "j smith" ELSE guest

ApiGuestEmail(guest) == IF guest = "j smith (J@X.com)" THEN Lower("J@X.com") ELSE NA

\* lines 242-259: the Enhancement lines of one row of df_api, with the EventId
\* as line 360 leaves it
EnhancementLines(r) ==
    [k \in 1..Len(r.PreOrderItems) |->
        [EventId |-> ToInt(Str(r.EventId)), Location |-> StripText(r.Location),
         Event |-> StripText(r.Event), Guest_name |-> ApiGuestName(r.Guest),
         Guest_email |-> ApiGuestEmail(r.Guest), Order_type |-> "Enhancement",
         Menu_Item |-> r.PreOrderItems[k].ProductName,
         ApiPrice |-> r.PreOrderItems[k].Price * r.PreOrderItems[k].OrderedAmount]]

\* process_api_menu (lines 200-266): df_menu and event_map
process_api_menu(api) ==
    LET F[i \in 0..Len(api)] == IF i = 0 THEN <<>> ELSE F[i - 1] \o EnhancementLines(api[i])
    IN  [df_menu |-> drop_duplicates_menu(F[Len(api)]), event_map |-> BuildMap(api)]

\* lines 369-370 on the frame of preprocess_manual
MapManualRows(df, map) ==
    [i \in 1..Len(df) |->
        [EventId |-> ToInt(map_event_id(df[i], map)), Location |-> df[i].Location,
         Event |-> df[i].Event, Event_Date |-> df[i].Event_Date,
         Guest_name |-> df[i].Guest_name, Guest_email |-> df[i].Guest_email,
         Order_type |-> df[i].Order_type, Ordered_on |-> df[i].Ordered_on,
         Status |-> df[i].Status, Total |-> df[i].Total]]

\* variant: the run goes on without the Event_Date column
AfterEventDateCheck_NoStop(has_event_date) == "link"

\* lines 365-367
AfterEventDateCheck(has_event_date) == IF has_event_date THEN "link" ELSE "stopped"

\* variant: the run goes on with an empty table
AfterEmptyCheck_NoStop(df, next) == next

\* lines 378-380 and 427-429: st.stop() on an empty table
AfterEmptyCheck(df, next) == IF df = <<>> THEN "stopped" ELSE next

\* lines 393-424: the rows of the chosen rows that have an order date
FilterRows(df, chosen) ==
    LET F[i \in 0..Len(df)] ==
            IF i = 0 THEN <<>>
            ELSE IF i \in chosen /\ ~IsNaN(df[i].Ordered_on) THEN Append(F[i - 1], df[i])
                 ELSE F[i - 1]
    IN  F[Len(df)]

\* line 498, and the columns the consolidated section reads: Event_Date and
\* Status are the columns of the export row the merged row comes from
RenameColumns(merged, manual) ==
    [i \in 1..Len(merged) |->
        [Location |-> merged[i].Location, Event |-> merged[i].Event,
         Event_Date |-> IF IsNaT(manual[merged[i].src].Event_Date) THEN NA
                        ELSE ToDate(manual[merged[i].src].Event_Date),
         PreOrderStatus |-> manual[merged[i].src].Status,
         PreOrderTotal |-> merged[i].Total]]

PipeInit ==
    /\ pipe_pc = "preprocess"
    /\ manual_file \in PipelineFiles
    /\ p_manual = <<>> /\ token = NaN
    /\ events_list = <<>> /\ fetch_index = 0 /\ responses = <<>> /\ all_data = <<>>
    /\ p_api = <<>> /\ p_menu = <<>> /\ p_event_map = <<>> /\ p_merged = <<>>
    /\ messages = <<>> /\ metrics_shown = FALSE
    /\ StatusIdle /\ LinkIdle /\ RunIdle /\ ResolveIdle /\ ApiIdle /\ IngestIdle
    /\ MoreIdle

\* line 322
PreprocessUpload ==
    /\ pipe_pc = "preprocess"
    /\ IF preprocess_manual(manual_file).error # ""
       THEN /\ messages' = Append(messages, preprocess_manual(manual_file).error)
            /\ pipe_pc' = "crashed"
            /\ UNCHANGED p_manual
       ELSE /\ p_manual' = preprocess_manual(manual_file).df
            /\ pipe_pc' = "token"
            /\ UNCHANGED messages
    /\ UNCHANGED <<manual_file, token, events_list, fetch_index, responses, all_data,
                   p_api, p_menu, p_event_map, p_merged, metrics_shown,
                   core_vars, resolve_vars, api_vars, ingest_vars, more_vars>>

\* lines 327-331, get_access_token (lines 147-152)
GetToken ==
    /\ pipe_pc = "token"
    /\ \E status \in {200, 500} :
          IF status = 200
          THEN /\ token' = 1
               /\ pipe_pc' = "events"
               /\ UNCHANGED messages
          ELSE /\ messages' = Append(messages, "Failed to retrieve API token")
               /\ pipe_pc' = "stopped"
               /\ UNCHANGED token
    /\ UNCHANGED <<manual_file, p_manual, events_list, fetch_index, responses, all_data,
                   p_api, p_menu, p_event_map, p_merged, metrics_shown,
                   core_vars, resolve_vars, api_vars, ingest_vars, more_vars>>

\* lines 336-344
FetchEventDetails ==
    /\ pipe_pc = "events"
    /\ \E response \in EventsResponses :
          /\ events_list' = fetch_event_details(response)
          /\ pipe_pc' = AfterFetch(1, Len(fetch_event_details(response)))
    /\ fetch_index' = 1
    /\ UNCHANGED <<manual_file, p_manual, token, responses, all_data,
                   p_api, p_menu, p_event_map, p_merged, messages, metrics_shown,
                   core_vars, resolve_vars, api_vars, ingest_vars, more_vars>>

\* lines 172-175: one pass of the loop of fetch_api_preorders; responses is
\* the record of the calls made
FetchPreorders ==
    /\ pipe_pc = "preorders"
    /\ \E response \in PreorderResponses(events_list[fetch_index].EventId) :
          /\ responses' = Append(responses, [EventId |-> events_list[fetch_index].EventId,
                                             status |-> response.status,
                                             preorders |-> response.preorders])
          /\ all_data' = extend_all_data(all_data, response)
    /\ fetch_index' = fetch_index + 1
    /\ pipe_pc' = AfterFetch(fetch_index + 1, Len(events_list))
    /\ UNCHANGED <<manual_file, p_manual, token, events_list,
                   p_api, p_menu, p_event_map, p_merged, messages, metrics_shown,
                   core_vars, resolve_vars, api_vars, ingest_vars, more_vars>>

\* lines 350-353: without a collected pre-order df_api_pre has no EventId
\* column and the merge raises KeyError
MergeEvents ==
    /\ pipe_pc = "merge_events"
    /\ IF all_data = <<>>
       THEN /\ messages' = Append(messages, KeyError("EventId"))
            /\ pipe_pc' = "crashed"
            /\ UNCHANGED p_api
       ELSE /\ p_api' = MergeEventsIntoPreorders(all_data, events_list)
            /\ pipe_pc' = "menu"
            /\ UNCHANGED messages
    /\ UNCHANGED <<manual_file, p_manual, token, events_list, fetch_index, responses,
                   all_data, p_menu, p_event_map, p_merged, metrics_shown,
                   core_vars, resolve_vars, api_vars, ingest_vars, more_vars>>

\* lines 358-360
BuildMenuAndMap ==
    /\ pipe_pc = "menu"
    /\ p_menu' = process_api_menu(p_api).df_menu
    /\ p_event_map' = process_api_menu(p_api).event_map
    /\ pipe_pc' = "map"
    /\ UNCHANGED <<manual_file, p_manual, token, events_list, fetch_index, responses,
                   all_data, p_api, p_merged, messages, metrics_shown,
                   core_vars, resolve_vars, api_vars, ingest_vars, more_vars>>

\* lines 365-370
MapManual ==
    /\ pipe_pc = "map"
    /\ pipe_pc' = AfterEventDateCheck(preprocess_manual(manual_file).has_event_date)
    /\ IF pipe_pc' = "stopped"
       THEN /\ messages' = Append(messages, "Manual file is missing 'Event_Date' column.")
            /\ UNCHANGED p_manual
       ELSE /\ p_manual' = MapManualRows(p_manual, p_event_map)
            /\ UNCHANGED messages
    /\ UNCHANGED <<manual_file, token, events_list, fetch_index, responses,
                   all_data, p_api, p_menu, p_event_map, p_merged, metrics_shown,
                   core_vars, resolve_vars, api_vars, ingest_vars, more_vars>>

\* lines 375-380
LinkManualAndMenu ==
    /\ pipe_pc = "link"
    /\ p_merged' = lumpsum_deduping(Merge(p_manual, p_menu))
    /\ pipe_pc' = AfterEmptyCheck(p_merged', "filter")
    /\ messages' = IF p_merged' = <<>> THEN Append(messages, "Merged data is empty.")
                   ELSE messages
    /\ UNCHANGED <<manual_file, p_manual, token, events_list, fetch_index, responses,
                   all_data, p_api, p_menu, p_event_map, metrics_shown,
                   core_vars, resolve_vars, api_vars, ingest_vars, more_vars>>

\* lines 383-429: the date range and the four sidebar filters keep the chosen
\* rows
FilterMerged ==
    /\ pipe_pc = "filter"
    /\ \E chosen \in SUBSET (1..Len(p_merged)) :
          p_merged' = FilterRows(p_merged, chosen)
    /\ pipe_pc' = AfterEmptyCheck(p_merged', "metrics")
    /\ messages' = IF p_merged' = <<>> THEN Append(messages, "No data after filtering.")
                   ELSE messages
    /\ UNCHANGED <<manual_file, p_manual, token, events_list, fetch_index, responses,
                   all_data, p_api, p_menu, p_event_map, metrics_shown,
                   core_vars, resolve_vars, api_vars, ingest_vars, more_vars>>

\* lines 438-496
ShowMetrics ==
    /\ pipe_pc = "metrics"
    /\ metrics_shown' = TRUE
    /\ pipe_pc' = "rename"
    /\ UNCHANGED <<manual_file, p_manual, token, events_list, fetch_index, responses,
                   all_data, p_api, p_menu, p_event_map, p_merged, messages,
                   core_vars, resolve_vars, api_vars, ingest_vars, more_vars>>

\* line 498: the merged table goes to the consolidated payment section with
\* the uploads and the selection of the sidebar (lines 98, 115-133)
RenameMerged ==
    /\ pipe_pc = "rename"
    /\ pipe_pc' = "consolidated_section"
    /\ pc' = "merged_export"
    /\ df_merged_final' = RenameColumns(p_merged, p_manual)
    /\ consolidated_file' \in PipelineConsolidatedFiles
    /\ selected_event' = FixtureName
    /\ selected_event_date' = FixtureDate
    /\ UNCHANGED <<df_consolidated, df_completed, df_box_totals, df_box_merged,
                   sum_preorders, sum_consolidated, message, merged_download,
                   final_download>>
    /\ UNCHANGED <<manual_file, p_manual, token, events_list, fetch_index, responses,
                   all_data, p_api, p_menu, p_event_map, p_merged, messages, metrics_shown,
                   status_vars, link_vars, resolve_vars, api_vars, ingest_vars, more_vars>>

PipeNext ==
    \/ PreprocessUpload
    \/ GetToken
    \/ FetchEventDetails
    \/ FetchPreorders
    \/ MergeEvents
    \/ BuildMenuAndMap
    \/ MapManual
    \/ LinkManualAndMenu
    \/ FilterMerged
    \/ ShowMetrics
    \/ RenameMerged
    \/ Next

SpecPipeline == PipeInit /\ [][PipeNext]_vars

(***************************************************************************)
(* Claims about the run                                                     *)
(***************************************************************************)

\* the calls that came back with a status other than 200
FailedCalls == {i \in 1..Len(responses) : responses[i].status # 200}

\* the records of the calls that came back with 200, in the order of the calls
RecordsOf200(calls) ==
    LET F[i \in 0..Len(calls)] ==
            IF i = 0 THEN <<>>
            ELSE IF calls[i].status = 200 THEN F[i - 1] \o calls[i].preorders ELSE F[i - 1]
    IN  F[Len(calls)]

\* the loop over the event ids is over
CollectionOver ==
    pipe_pc \in {"merge_events", "menu", "map", "link", "filter", "metrics", "rename",
                 "consolidated_section"}

\* C15: the batch holds exactly the records of the events whose call returned
\* 200, every event is requested exactly once, every failed call is reported,
\* and a failed call does not end the run.
C15_PartialDataReportedAndTolerated ==
    /\ all_data = RecordsOf200(responses)
    /\ \A i, j \in 1..Len(responses) :
          i # j => responses[i].EventId # responses[j].EventId
    /\ CollectionOver =>
          {responses[i].EventId : i \in 1..Len(responses)}
              = {events_list[i].EventId : i \in 1..Len(events_list)}
    /\ pipe_pc \in {"preorders", "merge_events"} =>
          Len(messages) >= Cardinality(FailedCalls)
    /\ FailedCalls # {} => pipe_pc # "crashed"

\* the places of the run in the order of the code
PipeStages ==
    <<"preprocess", "token", "events", "preorders", "merge_events", "menu", "map",
      "link", "filter", "metrics", "rename", "consolidated_section">>

RunStages ==
    <<"merged_export", "consolidated", "completed", "box_totals", "box_merged",
      "sum_check", "final">>

StageIndex(stage_list, stage) ==
    IF \E i \in 1..Len(stage_list) : stage_list[i] = stage
    THEN CHOOSE i \in 1..Len(stage_list) : stage_list[i] = stage
    ELSE Len(stage_list) + 1

\* the place of the run; a run that halted or ended is beyond every place
Position ==
    IF pipe_pc = "consolidated_section"
    THEN Len(PipeStages) + StageIndex(RunStages, pc)
    ELSE IF pipe_pc \in {"stopped", "crashed"} THEN Len(PipeStages) + Len(RunStages) + 1
    ELSE StageIndex(PipeStages, pipe_pc)

\* every event of the event list has been asked for, in the list's order
AllResponsesCollected ==
    /\ Len(responses) = Len(events_list)
    /\ \A i \in 1..Len(responses) : responses[i].EventId = events_list[i].EventId

\* C16: every per-event response has been collected before the lookup table
\* is built and before a record is resolved, and the run only moves forward:
\* resolution, linkage, aggregation and the check come in this order and no
\* place is entered twice (the loop over the events moves to its next event).
C16_StagesStrictlyForward ==
    /\ [](CollectionOver => AllResponsesCollected)
    /\ [][\/ Position' > Position
          \/ /\ pipe_pc = "preorders" /\ pipe_pc' = "preorders"
             /\ fetch_index' = fetch_index + 1]_vars

\* a run that collected the answers for two events, one of them a failure,
\* and went through resolution, linkage and aggregation to the check
C16_Witness ==
    /\ Len(responses) = 2
    /\ FailedCalls # {}
    /\ pipe_pc = "consolidated_section"
    /\ pc \in {"final", "stopped"}
    /\ ~IsNaN(sum_preorders)

Last(s) == s[Len(s)]

\* the export rows have been given their event ids
Resolved == p_manual # <<>> /\ "EventId" \in DOMAIN p_manual[1]

\* C17: a join or filter step that yields no rows halts the run there with a
\* message, and neither the metrics, nor an export, nor the payment status is
\* computed from an empty table.
C17_EmptyResultHalts ==
    /\ pipe_pc \in {"filter", "metrics", "rename", "consolidated_section"} => p_merged # <<>>
    /\ (metrics_shown \/ merged_download \/ final_download \/ pc # "idle") => p_merged # <<>>
    /\ (pipe_pc = "stopped" /\ Resolved) =>
          /\ p_merged = <<>>
          /\ Last(messages) \in {"Merged data is empty.", "No data after filtering."}
          /\ ~metrics_shown /\ pc = "idle"
    /\ (pc \in {"box_totals", "box_merged", "sum_check", "final"}
          \/ df_box_totals # <<>> \/ df_box_merged # <<>> \/ final_download)
          => df_completed # <<>>
    /\ (pc \in {"box_totals", "box_merged", "sum_check", "final", "done", "stopped", "crashed"}
          /\ df_consolidated # <<>> /\ df_completed = <<>>) =>
          /\ pc = "stopped"
          /\ message = "No Completed Pre-orders found for the selected event and date"
          /\ df_box_totals = <<>> /\ df_box_merged = <<>> /\ ~final_download

\* a run halted by filters that left no row
C17_Witness ==
    /\ pipe_pc = "stopped"
    /\ Resolved
    /\ p_merged = <<>>
    /\ Last(messages) = "No data after filtering."

\* the column of the pre-order export whose subscript raises, if any
MissingManualColumn == MissingColumn(ColumnsOf(manual_file), SubscriptedColumns)

NoEventDateColumn == MissingManualColumn = "" /\ "Event_Date" \notin ColumnsOf(manual_file)

MissingConsolidatedColumn ==
    MissingColumn(ConsolidatedColumns(consolidated_file), keep_cols)

\* nothing after the ingestion of the pre-order export has run
NothingAfterIngestion ==
    /\ IsNaN(token) /\ events_list = <<>> /\ responses = <<>> /\ p_api = <<>>
    /\ p_menu = <<>> /\ p_event_map = <<>> /\ p_merged = <<>> /\ ~metrics_shown
    /\ pc = "idle"

\* a column subscripted by preprocess_manual is absent: KeyError names it and
\* nothing else runs
SubscriptedColumnStops ==
    MissingManualColumn # "" =>
        /\ pipe_pc \in {"preprocess", "crashed"}
        /\ pipe_pc = "crashed" => messages = <<KeyError(MissingManualColumn)>>
        /\ ~Resolved
        /\ NothingAfterIngestion

\* a column of keep_cols is absent from the consolidated export: KeyError
\* names it and nothing of the section runs
ConsolidatedColumnStops ==
    (pc \notin {"idle", "merged_export", "consolidated"} /\ MissingConsolidatedColumn # "") =>
        /\ pc = "crashed"
        /\ message = KeyError(MissingConsolidatedColumn)
        /\ df_consolidated = <<>> /\ df_completed = <<>> /\ df_box_totals = <<>>
        /\ df_box_merged = <<>> /\ ~final_download

FixtureCompared ==
    /\ pc \in {"completed", "box_totals", "box_merged", "sum_check", "final", "done",
               "stopped"}
    /\ consolidated_file # <<>>
    /\ read_consolidated(consolidated_file).error = ""

\* C21: after the injection every row of the consolidated table holds the
\* trimmed, lower-cased selected fixture and the selected date; the rows that
\* match the fixture are all the rows, and the run is never stopped because
\* the file does not match the selected fixture.
C21_InjectedFixtureAlwaysMatches ==
    /\ \A i \in 1..Len(df_consolidated) :
          /\ df_consolidated[i].Event = Lower(StripText(selected_event))
          /\ df_consolidated[i].EventDate = selected_event_date
    /\ FixtureCompared =>
          Len(df_consolidated) = Len(read_consolidated(consolidated_file).df)
    /\ message # "The consolidated payment file does not match the selected fixture"

\* a consolidated export with rows went through the comparison under a
\* fixture name that is not in lower case
C21_Witness ==
    /\ FixtureCompared
    /\ df_consolidated # <<>>
    /\ selected_event # Lower(selected_event)
    /\ df_consolidated[1].Event = Lower(selected_event)

(***************************************************************************)
(* Claims about the final table                                             *)
(***************************************************************************)

\* the payment types assign_payment_status gives to a settled box
SettledTypes == {"Credit Card", "Purchase Order", "EFT"}

\* C22: a line of the final table is "Completed" when its box was paid by
\* Credit Card, Purchase Order or EFT, "Pending" when it was paid by Drawdown,
\* and has an empty status only when its payment type is empty.
C22_StatusFollowsPaymentType ==
    \A i \in 1..Len(df_export) :
        /\ df_export[i].ConsolidatedPaymentType \in SettledTypes
              => df_export[i].ConsolidatedPaymentStatus = "Completed"
        /\ df_export[i].ConsolidatedPaymentType = "Drawdown"
              => df_export[i].ConsolidatedPaymentStatus = "Pending"
        /\ df_export[i].ConsolidatedPaymentStatus = ""
              => df_export[i].ConsolidatedPaymentType = ""

(***************************************************************************)
(* Claims about the access token                                            *)
(***************************************************************************)

\* the dashboard has asked the API for the events or for pre-orders
DataRequested ==
    \/ pipe_pc \in {"preorders", "merge_events", "menu", "map", "link", "filter", "metrics",
                    "rename", "consolidated_section"}
    \/ events_list # <<>>
    \/ responses # <<>>

\* C23: neither client sends a data request without a token: the export
\* script sends no request whose Authorization header holds no token, and the
\* dashboard reports a refused token request, stops, and asks for neither the
\* events nor the pre-orders.
C23_NoRequestWithoutToken ==
    /\ \A i \in 1..Len(sent) : ~IsNaN(sent[i].token)
    /\ sent # <<>> => issued # <<>>
    /\ DataRequested => ~IsNaN(token)
    /\ (pipe_pc = "stopped" /\ IsNaN(token)) =>
          messages = <<"Failed to retrieve API token">>

(***************************************************************************)
(* src/ticket_exchange_report.py: adjust_block (lines 8-16)                 *)
(***************************************************************************)

\* A cell of a block column as pd.read_excel gives it: a text (its
\* characters), a number (its decimal digits) or an empty cell.
BlockStr(text) == [type |-> "str", text |-> text]

BlockInt(n) == [type |-> "int", text |-> Str(n)]

BlockNaN == [type |-> "nan", text |-> <<>>]

\* the longest text of a block cell
MaxBlockLen == 3

BlockChars == {"C", "c", "0", "5", "7", " "}

BlockNumbers == {0, 5, 7, 50}

\* f"{block_number} Club level"
ClubLevel(n) ==
    BlockStr(Str(n) \o <<" ", "C", "l", "u", "b", " ", "l", "e", "v", "e", "l">>)

\* the block cells of the uploads: short texts, results of an earlier
\* normalisation, numbers and the empty cell
Blocks ==
    {BlockStr(t) : t \in SeqsUpTo(BlockChars, MaxBlockLen)}
        \cup {ClubLevel(n) : n \in BlockNumbers}
        \cup {BlockInt(n) : n \in BlockNumbers}
        \cup {BlockNaN}

\* str.isdigit(): not empty and digits only
isdigit(text) == text # <<>> /\ AllDigits(text)

\* lines 9-16; int() drops the leading zeros
adjust_block(b) ==
    IF b.type = "str" /\ b.text # <<>> /\ Head(b.text) = "C" /\ isdigit(Tail(b.text))
    THEN ClubLevel(DigitsValue(Tail(b.text)))
    ELSE IF b.type = "str" /\ isdigit(b.text)
    THEN ClubLevel(DigitsValue(b.text))
    ELSE b

BlockInit ==
    /\ block \in Blocks
    /\ adjusted = <<>> /\ adjusted_again = <<>>
    /\ block_pc = "read"
    /\ MainIdle /\ TicketIdle /\ SeatIdle /\ BoardIdle /\ LoginIdle

\* lines 22, 32, 39: df["block"].apply(adjust_block)
AdjustBlock ==
    /\ block_pc = "read"
    /\ adjusted' = <<adjust_block(block)>>
    /\ block_pc' = "adjusted"
    /\ UNCHANGED <<block, adjusted_again, beside_block_vars>>

\* a block that was normalised comes back in a later upload
AdjustBlockAgain ==
    /\ block_pc = "adjusted"
    /\ adjusted_again' = <<adjust_block(adjusted[1])>>
    /\ block_pc' = "adjusted_again"
    /\ UNCHANGED <<block, adjusted, beside_block_vars>>

BlockNext == AdjustBlock \/ AdjustBlockAgain

SpecBlock == BlockInit /\ [][BlockNext]_vars

\* the number a block cell denotes: "C" and digits, digits, or a number
DenotesNumber(b) ==
    \/ b.type = "int"
    \/ b.type = "str" /\ isdigit(b.text)
    \/ b.type = "str" /\ b.text # <<>> /\ Head(b.text) = "C" /\ isdigit(Tail(b.text))

NumberOf(b) ==
    IF b.type = "str" /\ Head(b.text) = "C" THEN DigitsValue(Tail(b.text))
    ELSE DigitsValue(b.text)

\* C24: every block cell that denotes a number n, as "C" and digits, as digits
\* or as a number, becomes "<n> Club level"; every other cell is unchanged;
\* adjust_block applied to its own result changes nothing.
C24_AdjustBlockCanonical ==
    /\ (adjusted # <<>> /\ DenotesNumber(block)) => adjusted[1] = ClubLevel(NumberOf(block))
    /\ (adjusted # <<>> /\ ~DenotesNumber(block)) => adjusted[1] = block
    /\ adjusted_again # <<>> => adjusted_again = adjusted

(***************************************************************************)
(* src/ticket_exchange_report.py: process_files and run_app                 *)
(***************************************************************************)

\* columns.str.strip().str.replace(" ", "_").str.lower() on the headers of
\* the model
NormalizeHeader(header) ==
    CASE header = "Game Name" -> "game_name"
      [] header = "Game Date" -> "game_date"
      [] header = " Block " -> "block"
      [] header = "Block" -> "block"
      [] header = "Row" -> "row"
      [] header = "Seat" -> "seat"
      [] header = "Ticket Sold Price" -> "ticket_sold_price"
      [] OTHER -> header

\* the rows of a sheet under the normalised headers
NormalizeColumns(rows) ==
    [i \in 1..Len(rows) |->
        [c \in {NormalizeHeader(h) : h \in DOMAIN rows[i]} |->
            rows[i][CHOOSE h \in DOMAIN rows[i] : NormalizeHeader(h) = c]]]

\* the message of the exception a step of process_files raises
ProcessingError(what) ==
    CASE what = "unreadable" -> "Error processing files: File is not a zip file"
      [] what = "sheet" -> "Error processing files: Worksheet named 'TX Sales Data' not found"
      [] what = "block" -> "Error processing files: 'block'"
      [] what = "ticket_sold_price" -> "Error processing files: 'ticket_sold_price'"
      [] what = "row" -> "Error processing files: 'row'"
      [] what = "seat" -> "Error processing files: 'seat'"
      [] what = "game_name" -> "Error processing files: 'game_name'"
      [] what = "game_date" -> "Error processing files: 'game_date'"
      [] OTHER -> ""

\* the most rows of an upload
MaxTx == 2

MaxHosp == 2

TxHeaders == {"Game Name", "Game Date", " Block ", "Row", "Seat", "Ticket Sold Price"}

HospHeaders == {"Game Name", "Block", "Row", "Seat"}

TxRow(game, day, blk, price) ==
    [h \in TxHeaders |->
        CASE h = "Game Name" -> game
          [] h = "Game Date" -> day
          [] h = " Block " -> blk
          [] h = "Row" -> "A"
          [] h = "Seat" -> 1
          [] OTHER -> price]

HospRow(game, blk, seat_row) ==
    [h \in HospHeaders |->
        CASE h = "Game Name" -> game
          [] h = "Block" -> blk
          [] h = "Row" -> seat_row
          [] OTHER -> 1]

\* rows of the TX Sales sheet: the same seat written as "C05", as "5" and as a
\* number, with different prices; a row without game name; a price that is
\* no number
TxRows ==
    { TxRow("Arsenal v Chelsea", "2024-09-01", BlockStr(<<"C", "0", "5">>), <<"5", "0">>),
      TxRow("Arsenal v Chelsea", "2024-09-01", BlockStr(<<"5">>), <<"6", "0">>),
      TxRow("Arsenal v Chelsea", "2024-09-01", BlockInt(5), <<"7", "0">>),
      TxRow(NA, "2024-09-01", BlockStr(<<"C", "0", "5">>), <<"8", "0">>),
      TxRow("Arsenal v Chelsea", "2024-09-15", BlockStr(<<"C", "0", "7">>), <<"n", "/", "a">>) }

HospRows ==
    { HospRow("Arsenal v Chelsea", BlockStr(<<"C", "0", "5">>), "A"),
      HospRow("Arsenal v Chelsea", BlockInt(5), "A"),
      HospRow(NA, BlockStr(<<"C", "0", "5">>), "A"),
      HospRow("Arsenal v Chelsea", BlockStr(<<"0", "7">>), "A"),
      HospRow("Arsenal v Chelsea", BlockStr(<<"C", "0", "5">>), "B") }

\* a row with one of its columns taken away
Without(r, header) == [h \in (DOMAIN r) \ {header} |-> r[h]]

\* An upload: whether it can be read, the sheets it holds (each a sequence of
\* rows) and the name of its first sheet.
Upload(readable, sheet_name, sheet_list) ==
    [readable |-> readable, sheet_name |-> sheet_name, sheets |-> sheet_list]

TxFiles ==
    {Upload(TRUE, "TX Sales Data", <<t>>) : t \in SeqsUpTo(TxRows, MaxTx)}
        \cup { Upload(FALSE, "TX Sales Data", <<>>),
               Upload(TRUE, "Sheet1", <<<<TxRow("Arsenal v Chelsea", "2024-09-01",
                                                BlockStr(<<"5">>), <<"6", "0">>)>>>>),
               Upload(TRUE, "TX Sales Data",
                      <<<<Without(TxRow("Arsenal v Chelsea", "2024-09-01",
                                        BlockStr(<<"5">>), <<"6", "0">>), " Block ")>>>>),
               Upload(TRUE, "TX Sales Data",
                      <<<<Without(TxRow("Arsenal v Chelsea", "2024-09-01",
                                        BlockStr(<<"5">>), <<"6", "0">>), "Game Name")>>>>) }

HospFiles ==
    {Upload(TRUE, "Sheet1", <<t>>) : t \in SeqsUpTo(HospRows, MaxHosp)}
        \cup { Upload(FALSE, "Sheet1", <<>>),
               Upload(TRUE, "Sheet1",
                      << <<HospRow("Arsenal v Chelsea", BlockStr(<<"0", "7">>), "A")>>,
                         <<HospRow("Arsenal v Chelsea", BlockInt(5), "A")>> >>),
               Upload(TRUE, "Sheet1",
                      <<<<Without(HospRow("Arsenal v Chelsea", BlockInt(5), "A"), "Seat")>>>>),
               Upload(TRUE, "Sheet1",
                      <<<<Without(HospRow("Arsenal v Chelsea", BlockInt(5), "A"), "Block")>>>>) }

\* no file in the uploader
NoUpload == <<>>

\* lines 20-23: the static sheets, the block of the seat list normalised and
\* seat_value made a number
seat_list ==
    <<[block |-> adjust_block(BlockStr(<<"C", "0", "5">>)), row |-> "A", seat |-> 1,
       crc_desc |-> "Club", price_band |-> "PB1"]>>

game_category ==
    <<[game_name |-> "Arsenal v Chelsea", game_date |-> "2024-09-01", price_band |-> "PB1",
       category |-> "A", seat_value |-> ToNumeric(<<"4", "0">>)]>>

\* pd.concat(from_hosp.values(), ignore_index=True)
RECURSIVE Concat(_)
Concat(sheet_list) ==
    IF sheet_list = <<>> THEN <<>> ELSE Head(sheet_list) \o Concat(Tail(sheet_list))

\* the columns of a table, read off its first row
TableColumns(rows) == IF rows = <<>> THEN {} ELSE DOMAIN rows[1]

\* == on two cells: a missing value equals nothing, itself included
CellEq(a, b) == a # NA /\ b # NA /\ a = b

BlockEq(a, b) == a.type # "nan" /\ b.type # "nan" /\ a = b

\* lines 31-33: the TX Sales table, block normalised and price made a number
TxTable(rows) ==
    [i \in 1..Len(rows) |->
        [NormalizeColumns(rows)[i] EXCEPT
            !.block = adjust_block(@),
            !.ticket_sold_price = ToNumeric(@)]]

\* lines 36-39: the From Hosp table, block normalised
HospTable(rows) ==
    [i \in 1..Len(rows) |-> [NormalizeColumns(rows)[i] EXCEPT !.block = adjust_block(@)]]

\* variant: the seat is looked up without its block
sales_match_AnyBlock(tx, r) ==
    SelectSeq(tx, LAMBDA t : /\ CellEq(t.game_name, r.game_name)
                              /\ t.row = r.row /\ t.seat = r.seat)

\* lines 68-73: the TX Sales rows with the key of a From Hosp row
sales_match(tx, r) ==
    SelectSeq(tx, LAMBDA t : /\ CellEq(t.game_name, r.game_name)
                              /\ BlockEq(t.block, r.block)
                              /\ t.row = r.row /\ t.seat = r.seat)

\* lines 74-76: the release row of a From Hosp row
ReleaseRow(tx, r) ==
    [c \in (DOMAIN r) \cup {"matched_yn", "ticket_sold_price"} |->
        CASE c = "matched_yn" -> IF sales_match(tx, r) # <<>> THEN "Y" ELSE "N"
          [] c = "ticket_sold_price" ->
                IF sales_match(tx, r) # <<>> THEN sales_match(tx, r)[1].ticket_sold_price
                ELSE NaN
          [] OTHER -> r[c]]

\* lines 47-51: the rows of the seat list with the seat of a TX Sales row
matching_seat(t) ==
    SelectSeq(seat_list, LAMBDA s : BlockEq(s.block, t.block)
                                    /\ s.row = t.row /\ s.seat = t.seat)

\* lines 55-59: the game categories of the row's game and price band
matching_game(t) ==
    SelectSeq(game_category,
              LAMBDA g : /\ CellEq(g.game_name, t.game_name)
                         /\ g.game_date = t.game_date
                         /\ g.price_band = matching_seat(t)[1].price_band)

\* lines 47-64: the TX Sales rows whose seat is in the seat list and whose
\* game and price band are in the game categories
matched_data(tx) ==
    LET found(t) == matching_seat(t) # <<>> /\ matching_game(t) # <<>>
        kept == SelectSeq(tx, found)
    IN  [i \in 1..Len(kept) |->
            [c \in (DOMAIN kept[i]) \cup {"crc_desc", "price_band", "category", "seat_value",
                                           "value_generated"} |->
                CASE c = "crc_desc" -> matching_seat(kept[i])[1].crc_desc
                  [] c = "price_band" -> matching_seat(kept[i])[1].price_band
                  [] c = "category" -> matching_game(kept[i])[1].category
                  [] c = "seat_value" -> matching_game(kept[i])[1].seat_value
                  [] c = "value_generated" ->
                        IF IsNaN(kept[i].ticket_sold_price) THEN NaN
                        ELSE kept[i].ticket_sold_price - matching_game(kept[i])[1].seat_value
                  [] OTHER -> kept[i][c]]]

\* the first statement of process_files that raises, "" when none does
FirstException(tx_file, hosp_file) ==
    LET tx_rows == IF tx_file.sheets = <<>> THEN <<>> ELSE tx_file.sheets[1]
        tx_cols == {NormalizeHeader(h) : h \in TableColumns(tx_rows)}
        hosp_rows == Concat(hosp_file.sheets)
        hosp_cols == {NormalizeHeader(h) : h \in TableColumns(hosp_rows)}
        seat_found == \E i \in 1..Len(tx_rows) : matching_seat(TxTable(tx_rows)[i]) # <<>>
    IN  IF ~tx_file.readable THEN "unreadable"
        ELSE IF tx_file.sheet_name # "TX Sales Data" THEN "sheet"
        ELSE IF tx_rows # <<>> /\ "block" \notin tx_cols THEN "block"
        ELSE IF tx_rows # <<>> /\ "ticket_sold_price" \notin tx_cols THEN "ticket_sold_price"
        ELSE IF ~hosp_file.readable THEN "unreadable"
        ELSE IF hosp_rows # <<>> /\ "block" \notin hosp_cols THEN "block"
        ELSE IF tx_rows # <<>> /\ "row" \notin tx_cols THEN "row"
        ELSE IF tx_rows # <<>> /\ "seat" \notin tx_cols THEN "seat"
        ELSE IF tx_rows # <<>> /\ seat_found /\ "game_name" \notin tx_cols THEN "game_name"
        ELSE IF tx_rows # <<>> /\ seat_found /\ "game_date" \notin tx_cols THEN "game_date"
        ELSE IF tx_rows # <<>> /\ hosp_rows # <<>> /\ "game_name" \notin tx_cols THEN "game_name"
        ELSE IF hosp_rows # <<>> /\ "game_name" \notin hosp_cols THEN "game_name"
        ELSE IF hosp_rows # <<>> /\ "row" \notin hosp_cols THEN "row"
        ELSE IF hosp_rows # <<>> /\ "seat" \notin hosp_cols THEN "seat"
        ELSE ""

\* process_files (lines 26-86): the two tables, or None and None with the
\* error shown when a statement raises
process_files(tx_file, hosp_file) ==
    IF FirstException(tx_file, hosp_file) # ""
    THEN [matched |-> <<>>, release |-> <<>>,
          error |-> ProcessingError(FirstException(tx_file, hosp_file))]
    ELSE [matched |-> <<matched_data(TxTable(tx_file.sheets[1]))>>,
          release |-> <<[i \in 1..Len(Concat(hosp_file.sheets)) |->
                           ReleaseRow(TxTable(tx_file.sheets[1]),
                                      HospTable(Concat(hosp_file.sheets))[i])]>>,
          error |-> ""]

\* variant: the results are shown whatever process_files returned
has_data_Always(matched, release) == TRUE

\* line 111: matched_df is not None and release_df is not None
has_data(matched, release) == matched # <<>> /\ release # <<>>

TicketInit ==
    /\ tk_pc = "load"
    /\ tx_sales_file \in TxFiles \cup {NoUpload}
    /\ from_hosp_file \in HospFiles \cup {NoUpload}
    /\ matched_df = <<>> /\ release_df = <<>> /\ tk_messages = <<>>
    /\ tk_written = FALSE /\ tk_download = FALSE
    /\ MainIdle /\ BlockIdle /\ SeatIdle /\ BoardIdle /\ LoginIdle

\* lines 98-105: the static sheets are loaded, or the run returns
LoadSeatList ==
    /\ tk_pc = "load"
    /\ \E loaded \in BOOLEAN :
          IF loaded
          THEN /\ tk_messages' = Append(tk_messages,
                                        "Seat List and Game Category loaded successfully.")
               /\ tk_pc' = "uploads"
          ELSE /\ tk_messages' = Append(tk_messages,
                                        "Failed to load Seat List and Game Category")
               /\ tk_pc' = "done"
    /\ UNCHANGED <<tx_sales_file, from_hosp_file, matched_df, release_df, tk_written,
                   tk_download, beside_ticket_vars>>

\* lines 107-108 and 129-130: without both uploads nothing is processed
AwaitUploads ==
    /\ tk_pc = "uploads"
    /\ tx_sales_file = NoUpload \/ from_hosp_file = NoUpload
    /\ tk_messages' = Append(tk_messages, "Please upload both the TX Sales file and From Hosp file to proceed.")
    /\ tk_pc' = "done"
    /\ UNCHANGED <<tx_sales_file, from_hosp_file, matched_df, release_df, tk_written,
                   tk_download, beside_ticket_vars>>

\* lines 108-109: process_files
ProcessFiles ==
    /\ tk_pc = "uploads"
    /\ tx_sales_file # NoUpload /\ from_hosp_file # NoUpload
    /\ matched_df' = process_files(tx_sales_file, from_hosp_file).matched
    /\ release_df' = process_files(tx_sales_file, from_hosp_file).release
    /\ tk_messages' = IF process_files(tx_sales_file, from_hosp_file).error = ""
                      THEN tk_messages
                      ELSE Append(tk_messages,
                                  process_files(tx_sales_file, from_hosp_file).error)
    /\ tk_pc' = "processed"
    /\ UNCHANGED <<tx_sales_file, from_hosp_file, tk_written, tk_download,
                   beside_ticket_vars>>

\* lines 111-126: the tables are shown, written to processed_data.xlsx and
\* offered for download
ShowResults ==
    /\ tk_pc = "processed"
    /\ has_data(matched_df, release_df)
    /\ tk_written' = TRUE
    /\ tk_download' = TRUE
    /\ tk_pc' = "done"
    /\ UNCHANGED <<tx_sales_file, from_hosp_file, matched_df, release_df, tk_messages,
                   beside_ticket_vars>>

\* lines 127-128
ShowNoData ==
    /\ tk_pc = "processed"
    /\ ~has_data(matched_df, release_df)
    /\ tk_messages' = Append(tk_messages, "No data to display.")
    /\ tk_pc' = "done"
    /\ UNCHANGED <<tx_sales_file, from_hosp_file, matched_df, release_df, tk_written,
                   tk_download, beside_ticket_vars>>

TicketNext ==
    \/ LoadSeatList
    \/ AwaitUploads
    \/ ProcessFiles
    \/ ShowResults
    \/ ShowNoData

SpecTicket == TicketInit /\ [][TicketNext]_vars

(***************************************************************************)
(* Claims about the ticket exchange report                                  *)
(***************************************************************************)

\* the rows of the two uploads as they were read
TxInput == tx_sales_file.sheets[1]

HospInput == Concat(from_hosp_file.sheets)

\* process_files has returned two tables
Processed == tk_pc \in {"processed", "done"} /\ release_df # <<>>

\* a TX Sales row and a From Hosp row name the same seat of the same game:
\* every part of the key is there and equal, the blocks after adjust_block
SameSeat(t, h) ==
    /\ t["Game Name"] # NA /\ t["Game Name"] = h["Game Name"]
    /\ adjust_block(t[" Block "]).type # "nan"
    /\ adjust_block(t[" Block "]) = adjust_block(h["Block"])
    /\ t["Row"] = h["Row"] /\ t["Seat"] = h["Seat"]

SalesOf(h) == {j \in 1..Len(TxInput) : SameSeat(TxInput[j], h)}

FirstSaleOf(h) == CHOOSE j \in SalesOf(h) : \A k \in SalesOf(h) : j <= k

\* C25: the release table has one row per From Hosp row, in the order of the
\* input; a row is "Y" exactly when a TX Sales row names the same game, block,
\* row and seat, and then carries the price of the first such row; otherwise
\* it is "N" without a price.
C25_OneReleaseRowPerHospRow ==
    Processed =>
        /\ Len(release_df[1]) = Len(HospInput)
        /\ \A i \in 1..Len(HospInput) :
              LET out == release_df[1][i]
                  h == HospInput[i]
              IN  /\ out.game_name = h["Game Name"]
                  /\ out.block = adjust_block(h["Block"])
                  /\ out.row = h["Row"] /\ out.seat = h["Seat"]
                  /\ out.matched_yn = "Y" <=> SalesOf(h) # {}
                  /\ out.matched_yn \in {"Y", "N"}
                  /\ SalesOf(h) # {} =>
                        out.ticket_sold_price
                            = ToNumeric(TxInput[FirstSaleOf(h)]["Ticket Sold Price"])
                  /\ SalesOf(h) = {} => IsNaN(out.ticket_sold_price)

\* two From Hosp rows, the first sold twice at different prices, the second
\* not sold
C25_Witness ==
    /\ Processed
    /\ Len(release_df[1]) = 2
    /\ release_df[1][1].matched_yn = "Y"
    /\ release_df[1][2].matched_yn = "N"
    /\ Cardinality(SalesOf(HospInput[1])) = 2

\* run_app has called process_files
ProcessFilesCalled ==
    /\ tk_pc \in {"processed", "done"}
    /\ tx_sales_file # NoUpload /\ from_hosp_file # NoUpload
    /\ tk_messages # <<>>
    /\ tk_messages[1] = "Seat List and Game Category loaded successfully."

\* C26: when a statement of process_files raises, the error is shown, None and
\* None are returned, "No data to display." follows, and processed_data.xlsx
\* is neither written nor offered for download.
C26_FailureShowsNoData ==
    (ProcessFilesCalled /\ FirstException(tx_sales_file, from_hosp_file) # "") =>
        /\ matched_df = <<>> /\ release_df = <<>>
        /\ \E i \in 1..Len(tk_messages) :
              tk_messages[i] = ProcessingError(FirstException(tx_sales_file, from_hosp_file))
        /\ tk_pc = "done" => Last(tk_messages) = "No data to display."
        /\ ~tk_written /\ ~tk_download

\* a run over a TX Sales upload without its sheet ended with "No data"
C26_Witness ==
    /\ tk_pc = "done"
    /\ ProcessFilesCalled
    /\ FirstException(tx_sales_file, from_hosp_file) = "sheet"
    /\ Last(tk_messages) = "No data to display."
    /\ ~tk_written

(***************************************************************************)
(* src/tjt_hosp_api.py: seat expansion (lines 139-226)                      *)
(***************************************************************************)

\* the most merged transactions
MaxTransactions == 2

\* json.loads on the session texts of the model: the object, as the function
\* from its keys
json_loads(text) ==
    CASE text = "{\"Seats\": [{\"Number\": 1}, {\"Number\": 2}]}" ->
            [Seats |-> <<[Number |-> 1], [Number |-> 2]>>]
      [] text = "{\"Seats\": [{\"Number\": 1}]}" -> [Seats |-> <<[Number |-> 1]>>]
      [] text = "{\"Seats\": []}" -> [Seats |-> <<>>]
      [] OTHER -> [SessionId |-> 1]

\* The TMSessionId cell of a row of df: a session text, the empty text, None
\* (NA), or nothing where the transaction has no such key (NaN in the column
\* when another transaction has the key).
SessionCells ==
    {"{\"Seats\": [{\"Number\": 1}, {\"Number\": 2}]}", "{\"Seats\": [{\"Number\": 1}]}",
     "{\"Seats\": []}", "{\"SessionId\": 1}", "", NA, "nan"}

\* the truth value of a cell: None and "" are false, NaN is true
Truthy(cell) == cell \notin {"", NA}

\* the Locations of a transaction
LocationLists == {<<>>, <<[LocationName |-> "Box 12", Id |-> 90]>>}

\* a merged transaction; its Id is its place in df
Transactions ==
    [TMSessionId : SessionCells, Locations : LocationLists,
     Type : {"Seasonal Membership"}, Name : {"Platinum Gold"}]

MergedTransactions ==
    {[i \in 1..Len(t) |->
        [Id |-> i, TMSessionId |-> t[i].TMSessionId,
         Locations |-> [j \in 1..Len(t[i].Locations) |->
                           [t[i].Locations[j] EXCEPT !.Id = @ + i]],
         Type |-> t[i].Type, Name |-> t[i].Name]] :
     t \in SeqsUpTo(Transactions, MaxTransactions)}

\* 'Platinum' in row.get('Name', '') on the names of the model
ContainsPlatinum(name) == name \in {"Platinum Gold", "Platinum"}

\* lines 156-158 and 210-213
package_name(r) ==
    IF r.Type = "Seasonal Membership" /\ ContainsPlatinum(r.Name) THEN "Platinum" ELSE r.Name

\* tm_session_data.get('Seats', [])
SeatsOf(r) ==
    IF "Seats" \in DOMAIN json_loads(r.TMSessionId) THEN json_loads(r.TMSessionId).Seats
    ELSE <<>>

\* lines 141-200: one record per seat of the session
seat_records(r) ==
    [k \in 1..Len(SeatsOf(r)) |->
        [OrderId |-> r.Id, PackageName |-> package_name(r),
         LocationName |-> IF r.Locations # <<>> THEN r.Locations[1].LocationName ELSE "",
         SeatNumber |-> SeatsOf(r)[k].Number]]

\* lines 201-220: the transaction itself, without seat details
row_record(r) ==
    [OrderId |-> IF r.Locations # <<>> THEN r.Locations[1].Id ELSE r.Id,
     PackageName |-> package_name(r),
     LocationName |-> IF r.Locations # <<>> THEN r.Locations[1].LocationName ELSE "",
     SeatNumber |-> NaN]

SeatInit ==
    /\ seat_pc = "rows"
    /\ tjt_df \in MergedTransactions
    /\ seat_index = 1
    /\ final_data = <<>>
    /\ MainIdle /\ BlockIdle /\ TicketIdle /\ BoardIdle /\ LoginIdle

\* lines 139-220: one pass of the loop over df; NaN is true and json.loads(NaN)
\* raises TypeError, which ends the script
ExpandRow ==
    /\ seat_pc = "rows"
    /\ seat_index <= Len(tjt_df)
    /\ IF tjt_df[seat_index].TMSessionId = "nan"
       THEN /\ seat_pc' = "crashed"
            /\ UNCHANGED <<seat_index, final_data>>
       ELSE /\ final_data' = final_data \o
                    (IF Truthy(tjt_df[seat_index].TMSessionId)
                     THEN seat_records(tjt_df[seat_index])
                     ELSE <<row_record(tjt_df[seat_index])>>)
            /\ seat_index' = seat_index + 1
            /\ UNCHANGED seat_pc
    /\ UNCHANGED <<tjt_df, beside_seat_vars>>

\* lines 222-259: final_df is built, filtered and saved
SaveFinal ==
    /\ seat_pc = "rows"
    /\ seat_index > Len(tjt_df)
    /\ seat_pc' = "saved"
    /\ UNCHANGED <<tjt_df, seat_index, final_data, beside_seat_vars>>

SeatNext == ExpandRow \/ SaveFinal

SpecSeats == SeatInit /\ [][SeatNext]_vars

\* the records of final_data that come from a transaction
RecordsOf(r) ==
    {k \in 1..Len(final_data) :
        final_data[k].OrderId \in {r.Id} \cup {r.Locations[j].Id : j \in 1..Len(r.Locations)}}

\* C27: every merged transaction has a record in the output: one per seat when
\* it has a TMSessionId, exactly one when it has none.
C27_NoTransactionDisappears ==
    seat_pc = "saved" =>
        \A i \in 1..Len(tjt_df) :
            /\ RecordsOf(tjt_df[i]) # {}
            /\ Truthy(tjt_df[i].TMSessionId) =>
                  Cardinality(RecordsOf(tjt_df[i])) = Len(SeatsOf(tjt_df[i]))
            /\ ~Truthy(tjt_df[i].TMSessionId) => Cardinality(RecordsOf(tjt_df[i])) = 1

(***************************************************************************)
(* src/leadership_board_safe_keeping.py: calculate_monthly_progress         *)
(* (lines 64-114)                                                           *)
(***************************************************************************)

\* A day is its number in December 2024; 0 is 30 November. A timestamp is
\* <<day, minute of the day>>. 2 December 2024 is a Monday.
MaxSales == 2

\* pd.to_datetime(text, errors="coerce", dayfirst=True) on the CreatedOn texts
\* of the model, which parse_datetime wrote as "%d-%m-%Y %H:%M"
to_datetime(text) ==
    CASE text = "02-12-2024 10:00" -> <<2, 600>>
      [] text = "04-12-2024 00:00" -> <<4, 0>>
      [] text = "04-12-2024 14:30" -> <<4, 870>>
      [] text = "05-12-2024 09:00" -> <<5, 540>>
      [] OTHER -> NaT

CreatedOnTexts ==
    {"02-12-2024 10:00", "04-12-2024 00:00", "04-12-2024 14:30", "05-12-2024 09:00", "n/a"}

\* pd.to_datetime(a date): midnight at the start of the day
Midnight(day) == <<day, 0>>

\* the order of two timestamps; a comparison with NaT is false
NotBefore(a, b) == ~IsNaT(a) /\ (a[1] > b[1] \/ (a[1] = b[1] /\ a[2] >= b[2]))

NotAfter(a, b) == ~IsNaT(a) /\ (a[1] < b[1] \/ (a[1] = b[1] /\ a[2] <= b[2]))

\* Timestamp.weekday(): Monday is 0
weekday(day) == (day + 5) % 7

\* start_date.strftime("%B") and start_date.year
MonthOf(day) == IF day < 1 THEN <<"November", 2024>> ELSE <<"December", 2024>>

\* the index of targets_data (lines 26-27)
TargetMonths ==
    {<<"December", 2024>>, <<"January", 2025>>, <<"February", 2025>>, <<"March", 2025>>,
     <<"April", 2025>>, <<"May", 2025>>}

\* the columns of targets_data (lines 28-32), in their order
Executives == <<"bgardiner", "dcoppin", "jedwards", "millies", "dmontague">>

\* the December target of every executive (lines 28-32)
DecemberTarget == 155000

\* the sales: those of two executives and of a user who is no executive
Sales ==
    [CreatedBy : {"dcoppin", "millies", "jsmith"}, Price : {1000}, CreatedOn : CreatedOnTexts]

\* line 66
WithTimestamps(rows) ==
    [i \in 1..Len(rows) |-> [rows[i] EXCEPT !.CreatedOn = to_datetime(@)]]

\* groupby("CreatedBy")["Price"].sum().reindex(targets_data.columns, fill_value=0)
SumByExecutive(rows) ==
    [e \in SeqRange(Executives) |->
        ColumnSum([i \in 1..Len(SelectSeq(rows, LAMBDA r : r.CreatedBy = e)) |->
                      SelectSeq(rows, LAMBDA r : r.CreatedBy = e)[i].Price])]

\* lines 69-72: start_date <= CreatedOn <= end_date, both made timestamps
filtered_data(rows, first_day, last_day) ==
    SelectSeq(rows, LAMBDA r : /\ NotBefore(r.CreatedOn, Midnight(first_day))
                               /\ NotAfter(r.CreatedOn, Midnight(last_day)))

\* line 87: the rows created on the day of end_date
end_date_sales_data(rows, last_day) ==
    SelectSeq(rows, LAMBDA r : ~IsNaT(r.CreatedOn) /\ ToDate(r.CreatedOn) = last_day)

\* lines 95-99: from the Monday of the week to end_date, made a timestamp
weekly_sales_data(rows, last_day) ==
    SelectSeq(rows, LAMBDA r : /\ NotBefore(r.CreatedOn, Midnight(last_day - weekday(last_day)))
                               /\ NotAfter(r.CreatedOn, Midnight(last_day)))

\* round(0) of a quotient of two positive numbers: to the nearest number,
\* ties to even
RoundQuotient(n, d) ==
    LET q == n \div d
        r == n % d
    IN  IF 2 * r > d \/ (2 * r = d /\ q % 2 = 1) THEN q + 1 ELSE q

BoardInit ==
    /\ board_pc = "dates"
    /\ sales_data \in SeqsUpTo(Sales, MaxSales)
    /\ start_date = 0 /\ end_date = 0
    /\ end_date_sales = <<>> /\ weekly_sales = <<>> /\ progress = <<>>
    /\ progress_percentage = <<>>
    /\ MainIdle /\ BlockIdle /\ TicketIdle /\ SeatIdle /\ LoginIdle

\* lines 675-676: the two date inputs
SelectDates ==
    /\ board_pc = "dates"
    /\ start_date' \in {0, 1, 3}
    /\ end_date' \in {4, 5}
    /\ board_pc' = "calculate"
    /\ UNCHANGED <<sales_data, end_date_sales, weekly_sales, progress, progress_percentage,
                   beside_board_vars>>

\* calculate_monthly_progress, lines 64-114; CreatedOn is converted in place
CalculateMonthlyProgress ==
    /\ board_pc = "calculate"
    /\ sales_data' = WithTimestamps(sales_data)
    /\ IF MonthOf(start_date) \notin TargetMonths
       THEN /\ board_pc' = "no_target"
            /\ UNCHANGED <<end_date_sales, weekly_sales, progress, progress_percentage>>
       ELSE /\ end_date_sales' = SumByExecutive(end_date_sales_data(sales_data', end_date))
            /\ weekly_sales' =
                  [e \in SeqRange(Executives) |->
                      SumByExecutive(weekly_sales_data(sales_data', end_date))[e]
                          + end_date_sales'[e]]
            /\ progress' = SumByExecutive(filtered_data(sales_data', start_date, end_date))
            /\ progress_percentage' =
                  [e \in SeqRange(Executives) |->
                      RoundQuotient(progress'[e] * 100, DecemberTarget)]
            /\ board_pc' = "shown"
    /\ UNCHANGED <<start_date, end_date, beside_board_vars>>

BoardNext == SelectDates \/ CalculateMonthlyProgress

SpecBoard == BoardInit /\ [][BoardNext]_vars

\* the sum of Price over the sales of an executive created on the days from
\* first_day to last_day, each sale once
SalesOfDays(e, first_day, last_day) ==
    ColumnSum([i \in 1..Len(sales_data) |->
                  IF /\ sales_data[i].CreatedBy = e
                     /\ ~IsNaT(sales_data[i].CreatedOn)
                     /\ ToDate(sales_data[i].CreatedOn) >= first_day
                     /\ ToDate(sales_data[i].CreatedOn) <= last_day
                  THEN sales_data[i].Price ELSE 0])

\* C28: the progress of an executive counts every sale created on a day from
\* start_date to end_date, so every sale of Today's Sales is in the progress.
C28_ProgressCountsWholeEndDate ==
    board_pc = "shown" =>
        \A e \in SeqRange(Executives) :
            /\ progress[e] = SalesOfDays(e, start_date, end_date)
            /\ end_date_sales[e] <= progress[e]

\* C29: Weekly Sales of an executive is the sum of Price over the sales created
\* from the Monday of end_date's week to the end of end_date, each sale once.
C29_WeeklySalesCountOnce ==
    board_pc = "shown" =>
        \A e \in SeqRange(Executives) :
            weekly_sales[e] = SalesOfDays(e, end_date - weekday(end_date), end_date)

(***************************************************************************)
(* src/tx_tt.py: the login page (lines 280-394)                             *)
(***************************************************************************)

\* the most script runs of a session
MaxRuns == 4

\* the authorization codes a redirect can carry
Codes == {1, 2}

\* lines 280-288: a key that is not in the session state gets its default
Defaults ==
    [authenticated |-> FALSE, access_token |-> NaN, redirected |-> FALSE,
     data_refreshed |-> FALSE]

initialize(state) ==
    [k \in DOMAIN Defaults |-> IF k \in DOMAIN state THEN state[k] ELSE Defaults[k]]

\* variant: a refused exchange logs the user in as well
process_login_AnyResult(state, result) ==
    [state EXCEPT !.authenticated = TRUE, !.redirected = TRUE,
                  !.access_token = IF result.has_token THEN result.access_token ELSE @]

\* lines 337-345: the result of acquire_token_by_authorization_code
process_login(state, result) ==
    IF result.has_token
    THEN [state EXCEPT !.access_token = result.access_token, !.authenticated = TRUE,
                       !.redirected = TRUE]
    ELSE state

\* variant: the keys are reset and the session state is kept
logout_KeepState(state) == [state EXCEPT !.authenticated = FALSE]

\* lines 381-383: the two keys are reset and session_state.clear() removes
\* every key
logout(state) == <<>>

LoginInit ==
    /\ session_state = <<>>
    /\ query_code = NaN
    /\ click = "none"
    /\ login_pc = "waiting"
    /\ runs = 0
    /\ granted = {}
    /\ module_runs = <<>>
    /\ MainIdle /\ BlockIdle /\ TicketIdle /\ SeatIdle /\ BoardIdle

\* the browser comes back from Entra ID with a code in the query parameters
LoginRedirect ==
    /\ login_pc = "waiting"
    /\ runs < MaxRuns
    /\ \E code \in Codes : query_code' = code
    /\ click' = "none"
    /\ login_pc' = "run"
    /\ UNCHANGED <<session_state, runs, granted, module_runs, beside_login_vars>>

\* the page is loaded, or a widget of the page is used, and the script runs
PageRun ==
    /\ login_pc = "waiting"
    /\ runs < MaxRuns
    /\ click' \in {"none", "refresh", "logout"}
    /\ login_pc' = "run"
    /\ UNCHANGED <<session_state, query_code, runs, granted, module_runs, beside_login_vars>>

\* lines 280-288, and the branch of line 299
Initialize ==
    /\ login_pc \in {"run", "rerun", "rerun_after_logout"}
    /\ session_state' = initialize(session_state)
    /\ runs' = runs + 1
    /\ click' = IF login_pc = "run" THEN click ELSE "none"
    /\ login_pc' = IF session_state'.authenticated THEN "authenticated_view" ELSE "login_view"
    /\ UNCHANGED <<query_code, granted, module_runs, beside_login_vars>>

\* lines 299-347: the login link, and the exchange of the code for a token
ProcessLogin ==
    /\ login_pc = "login_view"
    /\ IF ~IsNaN(query_code) /\ ~session_state.redirected
       THEN \E answer \in {"token", "refused", "exception"} :
               LET result == [has_token |-> answer = "token",
                              access_token |-> query_code * 10 + runs]
               IN  /\ session_state' = IF answer = "exception" THEN session_state
                                       ELSE process_login(session_state, result)
                   /\ granted' = IF answer = "token" THEN granted \cup {result.access_token}
                                 ELSE granted
                   /\ login_pc' = IF session_state'.authenticated THEN "rerun" ELSE "waiting"
       ELSE /\ login_pc' = "waiting"
            /\ UNCHANGED <<session_state, granted>>
    /\ UNCHANGED <<query_code, click, runs, module_runs, beside_login_vars>>

\* lines 348-376: the chosen module is run, once more before when Refresh Data
\* was clicked; an exception of the module outside the try ends the run
RunModules ==
    /\ login_pc = "authenticated_view"
    /\ \E raised \in BOOLEAN :
          /\ module_runs' = IF Len(module_runs) < MaxRuns
                            THEN Append(module_runs, session_state.authenticated)
                            ELSE module_runs
          /\ session_state' = IF click = "refresh" /\ ~raised
                              THEN [session_state EXCEPT !.data_refreshed = TRUE]
                              ELSE session_state
          /\ login_pc' = IF raised THEN "waiting" ELSE "logout_button"
    /\ UNCHANGED <<query_code, click, runs, granted, beside_login_vars>>

\* lines 378-390: the Logout button
Logout ==
    /\ login_pc = "logout_button"
    /\ IF click = "logout"
       THEN /\ session_state' = logout(session_state)
            /\ query_code' = NaN
            /\ login_pc' = "rerun_after_logout"
       ELSE /\ login_pc' = "waiting"
            /\ UNCHANGED <<session_state, query_code>>
    /\ UNCHANGED <<click, runs, granted, module_runs, beside_login_vars>>

LoginNext ==
    \/ LoginRedirect
    \/ PageRun
    \/ Initialize
    \/ ProcessLogin
    \/ RunModules
    \/ Logout

SpecLogin == LoginInit /\ [][LoginNext]_vars

\* the session state says the user is logged in
Authenticated ==
    "authenticated" \in DOMAIN session_state /\ session_state.authenticated

HoldsToken ==
    "access_token" \in DOMAIN session_state /\ ~IsNaN(session_state.access_token)

\* C30: the modules run only under authenticated = TRUE; authenticated is TRUE
\* only with an access token that a successful exchange returned; the run
\* that follows a Logout click starts logged out and without a token.
C30_ModulesOnlyWhenAuthenticated ==
    /\ \A i \in 1..Len(module_runs) : module_runs[i]
    /\ login_pc = "authenticated_view" => Authenticated
    /\ Authenticated => (HoldsToken /\ session_state.access_token \in granted)
    /\ login_pc = "rerun_after_logout" => (~Authenticated /\ ~HoldsToken)
    /\ login_pc = "login_view" => (~Authenticated /\ ~HoldsToken)

\* a session that logged in, ran a module, logged out and is at the login
\* view again
C30_Witness ==
    /\ module_runs # <<>>
    /\ granted # {}
    /\ login_pc = "login_view"
    /\ ~Authenticated /\ ~HoldsToken

====
